---- MODULE Spec2Model ----
(***************************************************************************)
(* Signal & Risk Engine of the trading backend: the per-symbol update      *)
(* cycle of BackgroundWorker.run driving SignalProcessor, TradingEngine    *)
(* and PositionManager (positions / trades tables).                        *)
(*                                                                         *)
(* Number representation (the code uses floats):                           *)
(*   prices, ATR, stop, target   integer thousandths   (100.3 -> 100300)   *)
(*   indicator / master scores   integer hundredths    (67.5  -> 6750)     *)
(*   position size               integer 1e-4 units    (0.3   -> 3000)     *)
(*   pnl                         price * size = 1e-7   (1.5   -> 15000000) *)
(*   time                        integer seconds                           *)
(***************************************************************************)
EXTENDS Integers, Sequences, FiniteSets, TLC

VARIABLES
    positions,        \* rows of table positions (PositionManager)
    trades,           \* rows of table trades (PositionManager)
    next_position_id, \* AUTOINCREMENT counter of positions.id
    next_trade_id,    \* AUTOINCREMENT counter of trades.id
    last_trade_time,  \* TradingEngine.last_trade_time: symbol -> time | NoTime
    now,              \* time.time()
    idx,              \* position of BackgroundWorker.run in settings['symbols']
    reader,           \* what an API client has been served: [known, positions,
                      \* trades, got_positions, got_trades, limit]
    signals,          \* rows of table signals (PositionManager.log_signal)
    initial_stop,     \* history: id of an open position -> the stop_loss it was
                      \* opened with (the tables keep the current stop only)
    fn,               \* a call of one of the pure functions: its arguments and
                      \* what it returned, [op |-> "idle"] between calls
    scores,           \* table indicators_score of each symbol's database:
                      \* the timestamp of its newest row, NoTime while empty
    adx_history,      \* SignalProcessor.adx_history: symbol -> list of samples
    pm,               \* a PositionManager on a database of its own, called
                      \* directly: [S, opened, closed_by, now], where opened and
                      \* closed_by are history (position id -> the row as it
                      \* was inserted, trade id -> id of the position it closed)
    worker            \* where BackgroundWorker.run stands: [phase, k, pending];
                      \* phase "populate" while check_and_populate_initial_data
                      \* walks the symbols (k its position), then "loop";
                      \* pending lists what the loop body has still to commit
                      \* for the current symbol

vars == <<positions, trades, next_position_id, next_trade_id, last_trade_time,
          now, idx, reader, signals, initial_stop, fn, scores, adx_history, pm,
          worker>>

-----------------------------------------------------------------------------
(* Bounds of the model *)

\* the clock stops advancing here
MaxTime == 900
\* the worker stops once this many trades are recorded
MaxTrades == 3
\* the worker of SpecDb stops at this time
MaxDbTime == 300

-----------------------------------------------------------------------------
(* Configuration (settings.json, command line) *)

\* settings['symbols']
Symbols == <<"AAA", "BBB", "CCC", "DDD">>
\* settings['intervals']
Intervals == {"15m", "1h"}
\* settings['timeframeWeights']
timeframeWeights == [i \in Intervals |-> IF i = "1h" THEN 3 ELSE 1]
\* settings['account_balance'] / --account-balance, in currency units
account_balance == 100

NoTime == -1
None == "None"

-----------------------------------------------------------------------------
(* Arithmetic helpers *)

Abs(x) == IF x < 0 THEN -x ELSE x

Max2(a, b) == IF a >= b THEN a ELSE b

Min2(a, b) == IF a <= b THEN a ELSE b

\* Python round(): n/d to the nearest integer, ties to even (d > 0)
RoundDiv(n, d) ==
    LET q == n \div d
        r == n % d
    IN  IF 2 * r < d THEN q
        ELSE IF 2 * r > d THEN q + 1
        ELSE IF q % 2 = 0 THEN q ELSE q + 1

\* a score (0..100, hundredths) read as a price (thousandths): the same number
ScoreAsPrice(score) == score * 10

-----------------------------------------------------------------------------
(* TradingEngine: pure decision rules *)

\* check_market_filters without the volatility test
check_market_filters_adx_only(weighted_adx, current_atr, avg_atr_20) ==
    IF weighted_adx < 2000 THEN FALSE
    ELSE TRUE

\* can_trade of check_market_filters
check_market_filters(weighted_adx, current_atr, avg_atr_20) ==
    IF weighted_adx < 2000 THEN FALSE
    ELSE IF current_atr > 2 * avg_atr_20 THEN FALSE
    ELSE TRUE

\* check_cooldown with a cooldown of 300 seconds
check_cooldown_300(ltt, symbol, t) ==
    IF ltt[symbol] = NoTime THEN TRUE
    ELSE IF t - ltt[symbol] < 300 THEN FALSE
    ELSE TRUE

\* check_cooldown against the engine's last_trade_time map ltt at time t
check_cooldown(ltt, symbol, t) ==
    IF ltt[symbol] = NoTime THEN TRUE
    ELSE IF t - ltt[symbol] < 600 THEN FALSE
    ELSE TRUE

\* abs(a - b) / base < 0.01 (base # 0)
Within1Pct(a, b, base) ==
    IF base > 0 THEN Abs(a - b) * 100 < base ELSE TRUE

\* abs(a - b) / base > 0.01 (base # 0)
Beyond1Pct(a, b, base) ==
    IF base > 0 THEN Abs(a - b) * 100 > base ELSE FALSE

\* direction of detect_reversal_setup ('BULLISH', 'BEARISH' or None)
detect_reversal_setup(master_score, weighted_rsi, rsi_extreme, current_price, support, resistance, weighted_adx) ==
    IF ~rsi_extreme THEN None
    ELSE IF ~(Within1Pct(current_price, support, current_price)
              \/ Within1Pct(current_price, resistance, current_price)) THEN None
    ELSE IF weighted_adx < 2500 THEN None
    ELSE IF weighted_rsi > 7000 /\ master_score < 4500 THEN "BEARISH"
    ELSE IF weighted_rsi < 3000 /\ master_score > 5500 THEN "BULLISH"
    ELSE None

\* sum of the elements of a sequence of numbers
RECURSIVE SeqSum(_)
SeqSum(s) == IF s = <<>> THEN 0 ELSE s[1] + SeqSum(Tail(s))

\* detect_breakout_setup that takes an ADX equal to the mean of the three
\* prior samples as rising
detect_breakout_setup_not_falling(master_score, weighted_rsi, current_price, support, resistance, weighted_adx, history) ==
    IF weighted_rsi > 7000 \/ weighted_rsi < 3000 THEN None
    ELSE IF Len(history) < 4 THEN None
    ELSE LET n == Len(history)
             current_adx == history[n]
             sum_prev_3 == SeqSum(SubSeq(history, n - 3, n - 1))
         IN  IF ~(3 * current_adx >= sum_prev_3) THEN None
             ELSE IF master_score > 5500
                     /\ Within1Pct(current_price, resistance, current_price)
             THEN "BULLISH"
             ELSE IF master_score < 4500
                     /\ Within1Pct(current_price, support, current_price)
             THEN "BEARISH"
             ELSE None

\* direction of detect_breakout_setup ('BULLISH', 'BEARISH' or None); history
\* is the list passed as adx_history; current_adx > sum(history[-4:-1]) / 3
detect_breakout_setup(master_score, weighted_rsi, current_price, support, resistance, weighted_adx, history) ==
    IF weighted_rsi > 7000 \/ weighted_rsi < 3000 THEN None
    ELSE IF Len(history) < 4 THEN None
    ELSE LET n == Len(history)
             current_adx == history[n]
             sum_prev_3 == SeqSum(SubSeq(history, n - 3, n - 1))
         IN  IF ~(3 * current_adx > sum_prev_3) THEN None
             ELSE IF master_score > 5500
                     /\ Within1Pct(current_price, resistance, current_price)
             THEN "BULLISH"
             ELSE IF master_score < 4500
                     /\ Within1Pct(current_price, support, current_price)
             THEN "BEARISH"
             ELSE None

\* should_enter of check_long_entry_breakout; supertrend_scores: interval -> score
check_long_entry_breakout(master_score, supertrend_scores, current_price, resistance, high_volume) ==
    IF master_score <= 6000 THEN FALSE
    ELSE IF ~(\A i \in DOMAIN supertrend_scores : supertrend_scores[i] = 10000) THEN FALSE
    ELSE IF current_price * 1000 <= resistance * 1002 THEN FALSE
    ELSE IF ~high_volume THEN FALSE
    ELSE TRUE

\* should_enter of check_long_entry_reversal (support # 0)
check_long_entry_reversal(reversal_setup, master_score, weighted_macd, current_price, support) ==
    IF reversal_setup # "BULLISH" THEN FALSE
    ELSE IF master_score <= 5500 THEN FALSE
    ELSE IF weighted_macd <= 5000 THEN FALSE
    ELSE IF Beyond1Pct(current_price, support, support) THEN FALSE
    ELSE TRUE

\* should_enter of check_short_entry_breakout
check_short_entry_breakout(master_score, supertrend_scores, current_price, support, high_volume) ==
    IF master_score >= 4000 THEN FALSE
    ELSE IF ~(\A i \in DOMAIN supertrend_scores : supertrend_scores[i] = 0) THEN FALSE
    ELSE IF current_price * 1000 >= support * 998 THEN FALSE
    ELSE IF ~high_volume THEN FALSE
    ELSE TRUE

\* should_enter of check_short_entry_reversal (resistance # 0)
check_short_entry_reversal(reversal_setup, master_score, weighted_macd, current_price, resistance) ==
    IF reversal_setup # "BEARISH" THEN FALSE
    ELSE IF master_score >= 4500 THEN FALSE
    ELSE IF weighted_macd >= 5000 THEN FALSE
    ELSE IF Beyond1Pct(current_price, resistance, resistance) THEN FALSE
    ELSE TRUE

\* calculate_stop_loss; supertrend_1h is the number execute_entry passes, as a price
calculate_stop_loss(direction, entry_price, swing_low, swing_high, atr, supertrend_1h) ==
    IF direction = "LONG"
    THEN LET swing_sl == RoundDiv(swing_low * 999, 1000)
             atr_sl == entry_price - 2 * atr
             m == Max2(swing_sl, atr_sl)
         IN  IF supertrend_1h > 0 THEN Max2(m, supertrend_1h) ELSE m
    ELSE LET swing_sl == RoundDiv(swing_high * 1001, 1000)
             atr_sl == entry_price + 2 * atr
             m == Min2(swing_sl, atr_sl)
         IN  IF supertrend_1h > 0 THEN Min2(m, supertrend_1h) ELSE m

\* calculate_target_price that adds the reward on the SHORT side too
calculate_target_price_added(direction, entry_price, stop_loss) ==
    LET risk == Abs(entry_price - stop_loss)
    IN  RoundDiv(entry_price + 2 * risk, 10) * 10

\* calculate_target_price: round(entry +- 2 * risk, 2)
calculate_target_price(direction, entry_price, stop_loss) ==
    LET risk == Abs(entry_price - stop_loss)
        target == IF direction = "LONG" THEN entry_price + 2 * risk
                  ELSE entry_price - 2 * risk
    IN  RoundDiv(target, 10) * 10

\* calculate_position_size that cuts the quotient off after 4 decimals
calculate_position_size_truncated(balance, entry_price, stop_loss) ==
    LET risk_per_unit == Abs(entry_price - stop_loss)
    IN  IF risk_per_unit = 0 THEN 0
        ELSE (balance * 150000) \div risk_per_unit

\* calculate_position_size with risk_percent = 1.5: round(risk_amount / risk_per_unit, 4)
calculate_position_size(balance, entry_price, stop_loss) ==
    LET risk_per_unit == Abs(entry_price - stop_loss)
    IN  IF risk_per_unit = 0 THEN 0
        ELSE RoundDiv(balance * 150000, risk_per_unit)

\* calculate_pnl: round(pnl, 2), in hundredths
calculate_pnl(position, current_price) ==
    LET pnl == IF position.direction = "LONG"
               THEN (current_price - position.entry_price) * position.position_size
               ELSE (position.entry_price - current_price) * position.position_size
    IN  RoundDiv(pnl, 100000)

\* check_exit_conditions that tests the master score reversal before the stop
check_exit_conditions_reversal_first(position, current_price, master_score, weighted_supertrend, entry_time, t) ==
    LET direction == position.direction
        stop_loss == position.stop_loss
        target == position.target
    IN  IF direction = "LONG" /\ current_price >= target THEN "Target Hit"
        ELSE IF direction = "SHORT" /\ current_price <= target THEN "Target Hit"
        ELSE IF direction = "LONG" /\ master_score < 4500 THEN "Master Score Reversal"
        ELSE IF direction = "SHORT" /\ master_score > 5500 THEN "Master Score Reversal"
        ELSE IF direction = "LONG" /\ current_price <= stop_loss THEN "Stop Loss Hit"
        ELSE IF direction = "SHORT" /\ current_price >= stop_loss THEN "Stop Loss Hit"
        ELSE IF direction = "LONG" /\ weighted_supertrend < 4000 THEN "Supertrend Flip"
        ELSE IF direction = "SHORT" /\ weighted_supertrend > 6000 THEN "Supertrend Flip"
        ELSE IF t - entry_time > 14400 /\ calculate_pnl(position, current_price) <= 0
             THEN "Time Exit (No Profit)"
        ELSE None

\* exit reason of check_exit_conditions at time t, or None
check_exit_conditions(position, current_price, master_score, weighted_supertrend, entry_time, t) ==
    LET direction == position.direction
        stop_loss == position.stop_loss
        target == position.target
    IN  IF direction = "LONG" /\ current_price >= target THEN "Target Hit"
        ELSE IF direction = "SHORT" /\ current_price <= target THEN "Target Hit"
        ELSE IF direction = "LONG" /\ current_price <= stop_loss THEN "Stop Loss Hit"
        ELSE IF direction = "SHORT" /\ current_price >= stop_loss THEN "Stop Loss Hit"
        ELSE IF direction = "LONG" /\ master_score < 4500 THEN "Master Score Reversal"
        ELSE IF direction = "SHORT" /\ master_score > 5500 THEN "Master Score Reversal"
        ELSE IF direction = "LONG" /\ weighted_supertrend < 4000 THEN "Supertrend Flip"
        ELSE IF direction = "SHORT" /\ weighted_supertrend > 6000 THEN "Supertrend Flip"
        ELSE IF t - entry_time > 14400 /\ calculate_pnl(position, current_price) <= 0
             THEN "Time Exit (No Profit)"
        ELSE None

\* update_trailing_stop that trails without comparing with the current stop
update_trailing_stop_loose(position, current_price) ==
    LET entry_price == position.entry_price
        stop_loss == position.stop_loss
        risk == Abs(entry_price - stop_loss)
        no == [ok |-> FALSE, sl |-> 0]
    IN  IF position.direction = "LONG"
        THEN LET current_profit == current_price - entry_price
             IN  IF current_profit >= risk /\ stop_loss < entry_price
                 THEN [ok |-> TRUE, sl |-> entry_price]
                 ELSE IF 2 * current_profit >= 3 * risk
                 THEN [ok |-> TRUE, sl |-> entry_price + (current_profit \div 2)]
                 ELSE no
        ELSE LET current_profit == entry_price - current_price
             IN  IF current_profit >= risk /\ stop_loss > entry_price
                 THEN [ok |-> TRUE, sl |-> entry_price]
                 ELSE IF 2 * current_profit >= 3 * risk
                 THEN [ok |-> TRUE, sl |-> entry_price - (current_profit \div 2)]
                 ELSE no

\* update_trailing_stop: [ok |-> a new stop is returned, sl |-> the new stop]
update_trailing_stop(position, current_price) ==
    LET entry_price == position.entry_price
        stop_loss == position.stop_loss
        risk == Abs(entry_price - stop_loss)
        no == [ok |-> FALSE, sl |-> 0]
    IN  IF position.direction = "LONG"
        THEN LET current_profit == current_price - entry_price
                 new_sl == entry_price + (current_profit \div 2)
             IN  IF current_profit >= risk /\ stop_loss < entry_price
                 THEN [ok |-> TRUE, sl |-> entry_price]
                 ELSE IF 2 * current_profit >= 3 * risk /\ new_sl > stop_loss
                 THEN [ok |-> TRUE, sl |-> new_sl]
                 ELSE no
        ELSE LET current_profit == entry_price - current_price
                 new_sl == entry_price - (current_profit \div 2)
             IN  IF current_profit >= risk /\ stop_loss > entry_price
                 THEN [ok |-> TRUE, sl |-> entry_price]
                 ELSE IF 2 * current_profit >= 3 * risk /\ new_sl < stop_loss
                 THEN [ok |-> TRUE, sl |-> new_sl]
                 ELSE no

-----------------------------------------------------------------------------
(* PositionManager: the positions and trades tables.  An engine state S is  *)
(* [positions, trades, next_position_id, next_trade_id, last_trade_time,    *)
(*  raised]; raised records an exception propagating out of the call.       *)

RECURSIVE SumPnl(_)
SumPnl(rows) ==
    IF rows = {} THEN 0
    ELSE LET r == CHOOSE x \in rows : TRUE
         IN  r.pnl + SumPnl(rows \ {r})

\* open_position at time t: INSERT INTO positions
open_position(S, symbol, direction, entry_price, stop_loss, target, position_size, setup_type, t) ==
    [S EXCEPT !.positions = @ \cup {[id |-> S.next_position_id,
                                      symbol |-> symbol,
                                      direction |-> direction,
                                      entry_price |-> entry_price,
                                      stop_loss |-> stop_loss,
                                      target |-> target,
                                      position_size |-> position_size,
                                      entry_time |-> t,
                                      setup_type |-> setup_type]},
              !.next_position_id = @ + 1]

\* the trade row with the exit price written to entry_price as well
TradeOf_exit_as_entry(row, trade_id, exit_price, exit_reason, t) ==
    LET delta == IF row.direction = "LONG" THEN exit_price - row.entry_price
                 ELSE row.entry_price - exit_price
    IN  [id |-> trade_id,
         symbol |-> row.symbol,
         direction |-> row.direction,
         entry_price |-> exit_price,
         exit_price |-> exit_price,
         stop_loss |-> row.stop_loss,
         target |-> row.target,
         position_size |-> row.position_size,
         entry_time |-> row.entry_time,
         exit_time |-> t,
         exit_reason |-> exit_reason,
         pnl |-> delta * row.position_size,
         pnl_percent |-> [num |-> delta * 100, den |-> row.entry_price],
         setup_type |-> row.setup_type]

\* the trade row close_position inserts for row at exit_price, exit_reason, time t
TradeOf(row, trade_id, exit_price, exit_reason, t) ==
    LET delta == IF row.direction = "LONG" THEN exit_price - row.entry_price
                 ELSE row.entry_price - exit_price
    IN  [id |-> trade_id,
         symbol |-> row.symbol,
         direction |-> row.direction,
         entry_price |-> row.entry_price,
         exit_price |-> exit_price,
         stop_loss |-> row.stop_loss,
         target |-> row.target,
         position_size |-> row.position_size,
         entry_time |-> row.entry_time,
         exit_time |-> t,
         exit_reason |-> exit_reason,
         pnl |-> delta * row.position_size,
         \* pnl / (entry_price * position_size) * 100, as a fraction
         pnl_percent |-> [num |-> delta * 100, den |-> row.entry_price],
         setup_type |-> row.setup_type]

\* close_position raises ZeroDivisionError computing pnl_percent
ClosePositionRaises(row) == row.entry_price * row.position_size = 0

\* close_position without the INSERT INTO trades
close_position_delete_only(S, position_id, exit_price, exit_reason, t) ==
    LET rows == {r \in S.positions : r.id = position_id}
    IN  IF rows = {} THEN S
        ELSE LET row == CHOOSE r \in rows : TRUE
             IN  IF ClosePositionRaises(row) THEN [S EXCEPT !.raised = TRUE]
                 ELSE [S EXCEPT
                         !.positions = {r \in @ : r.id # position_id}]

\* close_position without the DELETE FROM positions
close_position_no_delete(S, position_id, exit_price, exit_reason, t) ==
    LET rows == {r \in S.positions : r.id = position_id}
    IN  IF rows = {} THEN S
        ELSE LET row == CHOOSE r \in rows : TRUE
             IN  IF ClosePositionRaises(row) THEN [S EXCEPT !.raised = TRUE]
                 ELSE [S EXCEPT
                         !.trades = @ \cup {TradeOf(row, S.next_trade_id, exit_price,
                                                    exit_reason, t)},
                         !.next_trade_id = @ + 1]

\* close_position at time t: SELECT, INSERT INTO trades, DELETE, commit
close_position(S, position_id, exit_price, exit_reason, t) ==
    LET rows == {r \in S.positions : r.id = position_id}
    IN  IF rows = {} THEN S
        ELSE LET row == CHOOSE r \in rows : TRUE
             IN  IF ClosePositionRaises(row) THEN [S EXCEPT !.raised = TRUE]
                 ELSE [S EXCEPT
                         !.trades = @ \cup {TradeOf(row, S.next_trade_id, exit_price,
                                                    exit_reason, t)},
                         !.next_trade_id = @ + 1,
                         !.positions = {r \in @ : r.id # position_id}]

\* the return value of close_position is a trade (not None)
ClosePositionReturnsTrade(S, position_id) ==
    \E r \in S.positions : r.id = position_id /\ ~ClosePositionRaises(r)

\* update_stop_loss that moves the target by the same amount as the stop
update_stop_loss_and_target(S, position_id, new_stop_loss) ==
    [S EXCEPT !.positions = {IF r.id = position_id
                             THEN [r EXCEPT !.stop_loss = new_stop_loss,
                                            !.target = @ + (new_stop_loss - r.stop_loss)]
                             ELSE r : r \in @}]

\* update_stop_loss: UPDATE positions SET stop_loss
update_stop_loss(S, position_id, new_stop_loss) ==
    [S EXCEPT !.positions = {IF r.id = position_id
                             THEN [r EXCEPT !.stop_loss = new_stop_loss]
                             ELSE r : r \in @}]

\* log_signal at time t: INSERT INTO signals, committed on a connection of its
\* own; the id is the AUTOINCREMENT key of a table no row is deleted from
log_signal(S, symbol, signal_type, direction, master_score, t) ==
    [S EXCEPT !.signals = @ \cup {[id |-> Cardinality(@) + 1, symbol |-> symbol,
                                   signal_type |-> signal_type,
                                   direction |-> direction,
                                   master_score |-> master_score,
                                   timestamp |-> t]}]

\* get_open_positions with a WHERE clause that matches no row
get_open_positions_none(S, symbol) == {}

\* get_open_positions(symbol)
get_open_positions(S, symbol) == {r \in S.positions : r.symbol = symbol}

\* count_open_positions
count_open_positions(S) == Cardinality(S.positions)

\* get_recent_trades: the first limit rows of ORDER BY exit_time DESC LIMIT ?;
\* rows with the same exit_time come out in the order of their ids, and a
\* negative limit is no limit
get_recent_trades(S, limit) ==
    {r \in S.trades :
        \/ limit < 0
        \/ Cardinality({q \in S.trades :
                            \/ q.exit_time > r.exit_time
                            \/ q.exit_time = r.exit_time /\ q.id < r.id}) < limit}

\* midnight of the day of t (the clock starts at a local midnight)
today_start(t) == t - (t % 86400)

\* get_daily_pnl at time t
get_daily_pnl(S, t) == SumPnl({r \in S.trades : r.exit_time >= today_start(t)})

\* limit_reached of check_daily_loss_limit with limit_percent = 4
check_daily_loss_limit(S, balance, t) ==
    get_daily_pnl(S, t) < -(balance * 400000)

\* count_trades_last_hour at time t
count_trades_last_hour(S, t) ==
    Cardinality({r \in S.trades : r.entry_time >= t - 3600})

-----------------------------------------------------------------------------
(* DataProcessor: aggregation of the interval scores *)

\* timeframe_weights.get(interval, 0)
WeightOf(weights, interval) ==
    IF interval \in DOMAIN weights THEN weights[interval] ELSE 0

RECURSIVE WeightedSum(_, _, _)
WeightedSum(interval_scores, weights, key) ==
    IF DOMAIN interval_scores = {} THEN 0
    ELSE LET i == CHOOSE x \in DOMAIN interval_scores : TRUE
             rest == [j \in DOMAIN interval_scores \ {i} |-> interval_scores[j]]
         IN  interval_scores[i][key] * WeightOf(weights, i)
             + WeightedSum(rest, weights, key)

RECURSIVE TotalWeight(_, _)
TotalWeight(is, weights) ==
    IF is = {} THEN 0
    ELSE LET i == CHOOSE x \in is : TRUE
         IN  WeightOf(weights, i) + TotalWeight(is \ {i}, weights)

\* calculate_weighted_indicators: [rsi, macd, adx, supertrend]
calculate_weighted_indicators(interval_scores, timeframe_weights) ==
    LET total_weight == TotalWeight(DOMAIN interval_scores, timeframe_weights)
        W(key) == LET sum == WeightedSum(interval_scores, timeframe_weights, key)
                  IN  IF total_weight > 0 THEN RoundDiv(sum, total_weight) ELSE sum
    IN  [rsi |-> W("rsi_score"), macd |-> W("macd_score"),
         adx |-> W("adx_score"), supertrend |-> W("supertrend_score")]

\* the score calculate_master_score returns: round(master_score, 2)
calculate_master_score(weighted_indicators) ==
    RoundDiv(weighted_indicators.rsi * 25 + weighted_indicators.macd * 30
             + weighted_indicators.adx * 20 + weighted_indicators.supertrend * 25, 100)

\* master_score of calculate_master_score before rounding, in 1e-4 units
master_score_raw(weighted_indicators) ==
    weighted_indicators.rsi * 25 + weighted_indicators.macd * 30
    + weighted_indicators.adx * 20 + weighted_indicators.supertrend * 25

\* classification with the first threshold inclusive
classification_inclusive(weighted_indicators) ==
    LET master_score == master_score_raw(weighted_indicators)
    IN  IF master_score >= 650000 THEN "STRONG_BULLISH"
        ELSE IF master_score >= 550000 THEN "BULLISH"
        ELSE IF master_score >= 450000 THEN "NEUTRAL"
        ELSE IF master_score >= 350000 THEN "BEARISH"
        ELSE "STRONG_BEARISH"

\* the classification calculate_master_score returns
classification(weighted_indicators) ==
    LET master_score == master_score_raw(weighted_indicators)
    IN  IF master_score > 650000 THEN "STRONG_BULLISH"
        ELSE IF master_score >= 550000 THEN "BULLISH"
        ELSE IF master_score >= 450000 THEN "NEUTRAL"
        ELSE IF master_score >= 350000 THEN "BEARISH"
        ELSE "STRONG_BEARISH"

-----------------------------------------------------------------------------
(* SignalProcessor *)

\* check_risk_limits without the cap on open positions
check_risk_limits_no_cap(S, t) ==
    IF check_daily_loss_limit(S, account_balance, t) THEN FALSE
    ELSE IF count_trades_last_hour(S, t) >= 2 THEN FALSE
    ELSE TRUE

\* check_risk_limits at time t
check_risk_limits(S, t) ==
    IF check_daily_loss_limit(S, account_balance, t) THEN FALSE
    ELSE IF count_open_positions(S) >= 3 THEN FALSE
    ELSE IF count_trades_last_hour(S, t) >= 2 THEN FALSE
    ELSE TRUE

\* interval_scores.get('1h', {}) with the defaults of each .get() on it
Interval1h(interval_scores, current_price) ==
    IF "1h" \in DOMAIN interval_scores THEN interval_scores["1h"]
    ELSE [rsi_score |-> 0, rsi_extreme |-> FALSE, macd_score |-> 0,
          adx_score |-> 0, supertrend_score |-> 5000,
          support |-> RoundDiv(current_price * 98, 100),
          resistance |-> RoundDiv(current_price * 102, 100),
          high_volume |-> FALSE, atr |-> 0, avg_atr_20 |-> 0,
          swing_low |-> RoundDiv(current_price * 95, 100),
          swing_high |-> RoundDiv(current_price * 105, 100)]

\* format_long_entry_signal / format_short_entry_signal raise
\* ZeroDivisionError computing rr_ratio
format_entry_signal_raises(entry_price, stop_loss) == Abs(entry_price - stop_loss) = 0

\* execute_entry at time t; the notification is built after the position is
\* stored and the cooldown stamped
execute_entry(S, direction, setup_type, symbol, entry_price, swing_low, swing_high, atr, interval_1h, t) ==
    LET supertrend_1h == ScoreAsPrice(interval_1h.supertrend_score)
        stop_loss == calculate_stop_loss(direction, entry_price, swing_low, swing_high,
                                         atr, supertrend_1h)
        target == calculate_target_price(direction, entry_price, stop_loss)
        position_size == calculate_position_size(account_balance, entry_price, stop_loss)
        S1 == open_position(S, symbol, direction, entry_price, stop_loss, target,
                            position_size, setup_type, t)
        S2 == [S1 EXCEPT !.last_trade_time[symbol] = t]
    IN  IF format_entry_signal_raises(entry_price, stop_loss)
        THEN [S2 EXCEPT !.raised = TRUE]
        ELSE S2

\* check_entry_signals with the reversal-long rule tested before breakout-long
EntryRule_reversal_first(master_score, weighted_macd, supertrend_scores, current_price, support, resistance, high_volume, reversal_direction) ==
    IF check_long_entry_reversal(reversal_direction, master_score, weighted_macd,
                                 current_price, support)
    THEN [direction |-> "LONG", setup_type |-> "Reversal"]
    ELSE IF check_long_entry_breakout(master_score, supertrend_scores, current_price,
                                      resistance, high_volume)
    THEN [direction |-> "LONG", setup_type |-> "Breakout"]
    ELSE IF check_short_entry_breakout(master_score, supertrend_scores, current_price,
                                       support, high_volume)
    THEN [direction |-> "SHORT", setup_type |-> "Breakout"]
    ELSE IF check_short_entry_reversal(reversal_direction, master_score, weighted_macd,
                                       current_price, resistance)
    THEN [direction |-> "SHORT", setup_type |-> "Reversal"]
    ELSE [direction |-> None, setup_type |-> None]

\* the rule check_entry_signals enters on: [direction, setup_type], or None
EntryRule(master_score, weighted_macd, supertrend_scores, current_price, support, resistance, high_volume, reversal_direction) ==
    IF check_long_entry_breakout(master_score, supertrend_scores, current_price,
                                 resistance, high_volume)
    THEN [direction |-> "LONG", setup_type |-> "Breakout"]
    ELSE IF check_long_entry_reversal(reversal_direction, master_score, weighted_macd,
                                      current_price, support)
    THEN [direction |-> "LONG", setup_type |-> "Reversal"]
    ELSE IF check_short_entry_breakout(master_score, supertrend_scores, current_price,
                                       support, high_volume)
    THEN [direction |-> "SHORT", setup_type |-> "Breakout"]
    ELSE IF check_short_entry_reversal(reversal_direction, master_score, weighted_macd,
                                       current_price, resistance)
    THEN [direction |-> "SHORT", setup_type |-> "Reversal"]
    ELSE [direction |-> None, setup_type |-> None]

\* detect_and_process_signals followed by check_entry_signals
detect_and_process_signals(S, symbol, master_score, weighted_indicators, current_price, interval_scores, interval_1h, t) ==
    LET weighted_rsi == weighted_indicators.rsi
        rsi_extreme == weighted_rsi > 7000 \/ weighted_rsi < 3000
        reversal_direction ==
            detect_reversal_setup(master_score, weighted_rsi, rsi_extreme, current_price,
                                  interval_1h.support, interval_1h.resistance,
                                  weighted_indicators.adx)
        supertrend_scores == [i \in DOMAIN interval_scores |->
                                 interval_scores[i].supertrend_score]
        rule == EntryRule(master_score, weighted_indicators.macd, supertrend_scores,
                          current_price, interval_1h.support, interval_1h.resistance,
                          interval_1h.high_volume, reversal_direction)
    IN  IF rule.direction = None THEN S
        ELSE execute_entry(S, rule.direction, rule.setup_type, symbol, current_price,
                           interval_1h.swing_low, interval_1h.swing_high,
                           interval_1h.atr, interval_1h, t)

\* the body of the loop of manage_existing_positions for one position snapshot
ManageOne(S, position, current_price, master_score, weighted_supertrend, t) ==
    LET exit_reason == check_exit_conditions(position, current_price, master_score,
                                             weighted_supertrend, position.entry_time, t)
        new_sl == update_trailing_stop(position, current_price)
    IN  IF exit_reason # None
        THEN close_position(S, position.id, current_price, exit_reason, t)
        ELSE IF new_sl.ok /\ new_sl.sl # 0
        THEN update_stop_loss(S, position.id, new_sl.sl)
        ELSE S

\* the loop of manage_existing_positions over the snapshot open_positions, in id order
RECURSIVE ManageLoop(_, _, _, _, _, _)
ManageLoop(S, open_positions, current_price, master_score, weighted_supertrend, t) ==
    IF open_positions = {} \/ S.raised THEN S
    ELSE LET position == CHOOSE p \in open_positions :
                             \A q \in open_positions : p.id <= q.id
         IN  ManageLoop(ManageOne(S, position, current_price, master_score,
                                  weighted_supertrend, t),
                        open_positions \ {position}, current_price, master_score,
                        weighted_supertrend, t)

\* manage_existing_positions
manage_existing_positions(S, symbol, current_price, master_score, weighted_supertrend, t) ==
    ManageLoop(S, get_open_positions(S, symbol), current_price, master_score,
               weighted_supertrend, t)

\* SignalProcessor.process_trading_signals at time t
process_trading_signals(S, symbol, master_score, weighted_indicators, interval_scores, current_price, t) ==
    IF ~check_risk_limits(S, t) THEN S
    ELSE LET interval_1h == Interval1h(interval_scores, current_price)
         IN  IF ~check_market_filters(weighted_indicators.adx, interval_1h.atr,
                                      interval_1h.avg_atr_20)
             THEN S
             ELSE LET S1 == manage_existing_positions(S, symbol, current_price,
                                master_score, weighted_indicators.supertrend, t)
                  IN  IF S1.raised THEN S1
                      ELSE IF get_open_positions(S1, symbol) # {} THEN S1
                      ELSE IF ~check_cooldown(S1.last_trade_time, symbol, t) THEN S1
                      ELSE detect_and_process_signals(S1, symbol, master_score,
                               weighted_indicators, current_price, interval_scores,
                               interval_1h, t)

-----------------------------------------------------------------------------
(* Inputs of a cycle: what the market-data and indicator collaborators      *)
(* return for one symbol (fetch_current_price, calculate_all_scores).       *)

\* calculate_rsi_score on the latest RSI, given in thousandths: is_extreme is
\* tested on the RSI as computed, the score is the RSI rounded to 2 decimals
calculate_rsi_score(latest_rsi) ==
    [score |-> RoundDiv(latest_rsi, 10),
     is_extreme |-> latest_rsi > 70000 \/ latest_rsi < 30000]

\* the score record calculate_all_scores builds for one interval from the
\* latest RSI (in thousandths); other scores 0..100, prices in whole units
ScRsi(latest_rsi, macd, adx, st, support, resistance, hv, atr, avg, swl, swh) ==
    [rsi_score |-> calculate_rsi_score(latest_rsi).score,
     rsi_extreme |-> calculate_rsi_score(latest_rsi).is_extreme,
     macd_score |-> macd * 100, adx_score |-> adx * 100,
     supertrend_score |-> st * 100,
     support |-> support * 1000, resistance |-> resistance * 1000,
     high_volume |-> hv, atr |-> atr * 1000, avg_atr_20 |-> avg * 1000,
     swing_low |-> swl * 1000, swing_high |-> swh * 1000]

\* the score record of one interval whose RSI is a whole number
Sc(rsi, macd, adx, st, support, resistance, hv, atr, avg, swl, swh) ==
    ScRsi(rsi * 1000, macd, adx, st, support, resistance, hv, atr, avg, swl, swh)

\* 1h score records: one per market situation the engine distinguishes
ScBreakoutUp    == Sc(50, 60, 60, 100, 190, 199, TRUE, 3, 3, 190, 210)
ScBreakoutUpLow == Sc(50, 60, 60, 100, 70, 79, TRUE, 3, 3, 70, 90)
ScBreakoutDown  == Sc(50, 40, 30, 0, 201, 210, TRUE, 3, 3, 190, 210)
ScReversalUp    == Sc(20, 100, 60, 50, 201, 210, FALSE, 3, 3, 190, 210)
ScReversalDown  == Sc(80, 0, 40, 50, 190, 199, FALSE, 3, 3, 190, 210)
ScNeutral       == Sc(50, 50, 50, 50, 190, 210, FALSE, 3, 3, 190, 210)
ScChoppy        == Sc(50, 50, 10, 50, 190, 210, FALSE, 3, 3, 190, 210)
ScVolatile      == Sc(50, 50, 50, 50, 190, 210, FALSE, 9, 3, 190, 210)
ScZero          == Sc(0, 0, 0, 0, 190, 210, FALSE, 3, 3, 190, 210)
\* a breakout with an ATR of 0
ScBreakoutFlat  == Sc(50, 60, 60, 100, 190, 199, TRUE, 0, 3, 190, 210)
\* a breakout above resistance next to a support with a bullish reversal
ScBothLong      == Sc(20, 100, 60, 100, 199, 199, TRUE, 3, 3, 190, 210)

Only1h(sc) == [i \in {"1h"} |-> sc]

In(price, interval_scores) ==
    [current_price |-> price * 1000, interval_scores |-> interval_scores]

\* [current_price, interval_scores] the collaborators can return for a symbol.
\* AAA trades around 200 and shows every market situation; BBB trades below
\* 100; CCC and DDD are quiet instruments around 200.
Inputs(symbol) ==
    IF symbol = "AAA" THEN
        {In(200, Only1h(sc)) : sc \in {ScBreakoutUp, ScBreakoutDown, ScReversalUp,
                                        ScReversalDown}}
        \cup {In(p, Only1h(ScNeutral)) : p \in {170, 184, 194, 200, 212}}
        \cup {In(212, Only1h(ScChoppy)), In(194, Only1h(ScVolatile)),
              In(212, Only1h(ScZero)),
              \* no interval produced data
              In(200, <<>>),
              \* fetch_current_price failed
              In(0, Only1h(ScNeutral)),
              \* the 1h interval is missing
              In(200, [i \in {"15m"} |-> ScReversalUp]),
              \* both intervals, which disagree
              In(200, [i \in Intervals |-> IF i = "1h" THEN ScBreakoutUp ELSE ScNeutral]),
              In(200, Only1h(ScBothLong))}
    ELSE IF symbol = "BBB" THEN
        {In(80, Only1h(ScBreakoutUpLow)), In(80, Only1h(ScNeutral)),
         In(120, Only1h(ScNeutral))}
    ELSE IF symbol = "CCC" THEN
        {In(200, Only1h(ScBreakoutUp)), In(200, Only1h(ScNeutral)),
         In(194, Only1h(ScNeutral)), In(200, Only1h(ScBreakoutFlat))}
    ELSE
        {In(200, Only1h(ScBreakoutUp)), In(200, Only1h(ScNeutral)),
         In(206, Only1h(ScNeutral)), In(207, Only1h(ScNeutral))}

\* seconds from the start of one cycle to the start of the next:
\* settings['updateIntervalMinutes'] * 60 of sleep plus the time the cycle took
CycleSeconds == {300, 600}

-----------------------------------------------------------------------------
(* BackgroundWorker.run *)

EngineState == [positions |-> positions, trades |-> trades,
                next_position_id |-> next_position_id,
                next_trade_id |-> next_trade_id,
                last_trade_time |-> last_trade_time, signals |-> signals,
                raised |-> FALSE]

\* update_symbol_data produced scores (its return value is not all None)
Scored(inp) == DOMAIN inp.interval_scores # {}

WeightedOf(inp) == calculate_weighted_indicators(inp.interval_scores, timeframeWeights)

MasterOf(inp) == calculate_master_score(WeightedOf(inp))

\* save_indicator_scores at time t: INSERT OR REPLACE INTO indicators_score
\* of a row with timestamp t, the newest of the symbol's table
save_indicator_scores(sc, symbol, t) == [sc EXCEPT ![symbol] = t]

\* update_symbol_data that saves a row whether or not an interval produced data
update_symbol_data_always(sc, symbol, inp, t) == save_indicator_scores(sc, symbol, t)

\* the scores tables after DataProcessor.update_symbol_data at time t: nothing
\* is saved when no interval produced data
update_symbol_data(sc, symbol, inp, t) ==
    IF ~Scored(inp) THEN sc ELSE save_indicator_scores(sc, symbol, t)

\* all([master_score, weighted_indicators, interval_scores, current_price])
AllTruthy(inp) ==
    Scored(inp) /\ MasterOf(inp) # 0 /\ inp.current_price # 0

\* the engine state after the loop body of run for symbol with input inp
SymbolResult(S, symbol, inp, t) ==
    IF AllTruthy(inp)
    THEN process_trading_signals(S, symbol, MasterOf(inp), WeightedOf(inp),
                                 inp.interval_scores, inp.current_price, t)
    ELSE S

\* the engine states the loop of manage_existing_positions commits one after
\* the other over the snapshot open_positions: close_position and
\* update_stop_loss commit on a connection of their own
RECURSIVE ManageCommits(_, _, _, _, _, _)
ManageCommits(S, open_positions, current_price, master_score, weighted_supertrend, t) ==
    IF open_positions = {} \/ S.raised THEN <<>>
    ELSE LET position == CHOOSE p \in open_positions :
                             \A q \in open_positions : p.id <= q.id
             S1 == ManageOne(S, position, current_price, master_score,
                             weighted_supertrend, t)
         IN  (IF S1 = S THEN <<>> ELSE <<S1>>)
             \o ManageCommits(S1, open_positions \ {position}, current_price,
                              master_score, weighted_supertrend, t)

\* the engine states one call of SignalProcessor.process_trading_signals
\* commits: those of manage_existing_positions, then the one of execute_entry
\* (open_position; last_trade_time, which only the caller's thread reads, is
\* stamped right after it). The last one is the state the call leaves.
process_trading_signals_commits(S, symbol, master_score, weighted_indicators, interval_scores, current_price, t) ==
    IF ~check_risk_limits(S, t) THEN <<>>
    ELSE LET interval_1h == Interval1h(interval_scores, current_price)
         IN  IF ~check_market_filters(weighted_indicators.adx, interval_1h.atr,
                                      interval_1h.avg_atr_20)
             THEN <<>>
             ELSE LET M == ManageCommits(S, get_open_positions(S, symbol),
                               current_price, master_score,
                               weighted_indicators.supertrend, t)
                      S1 == IF M = <<>> THEN S ELSE M[Len(M)]
                      R == process_trading_signals(S, symbol, master_score,
                               weighted_indicators, interval_scores, current_price, t)
                  IN  IF R = S1 THEN M ELSE Append(M, R)

\* the engine states the loop body commits for symbol after update_symbol_data
\* returned inp: those of manage_existing_positions, then the one of
\* execute_entry (open_position; last_trade_time, which only the worker reads,
\* is stamped right after it). The last one is SymbolResult.
SymbolCommits(S, symbol, inp, t) ==
    IF ~AllTruthy(inp) THEN <<>>
    ELSE process_trading_signals_commits(S, symbol, MasterOf(inp), WeightedOf(inp),
                                         inp.interval_scores, inp.current_price, t)

\* one iteration of the loop of check_and_populate_initial_data: a symbol
\* whose table of scores is empty gets update_symbol_data(historical_limit=200),
\* and process_trading_signals is not called
InitialLoad ==
    /\ worker.phase = "populate"
    /\ \E inp \in Inputs(Symbols[worker.k]) :
         scores' = IF scores[Symbols[worker.k]] # NoTime THEN scores
                   ELSE update_symbol_data(scores, Symbols[worker.k], inp, now)
    /\ worker' = IF worker.k = Len(Symbols)
                 THEN [worker EXCEPT !.phase = "loop"]
                 ELSE [worker EXCEPT !.k = @ + 1]
    /\ UNCHANGED <<positions, trades, next_position_id, next_trade_id,
                   last_trade_time, now, idx, reader, signals, initial_stop, fn,
                   adx_history, pm>>

\* the first half of one iteration of `for symbol in self.settings['symbols']`:
\* update_symbol_data commits the scores; what process_trading_signals will
\* commit is pending. An iteration that commits nothing more ends here.
WorkerUpdate ==
    /\ worker.phase = "loop"
    /\ worker.pending = <<>>
    /\ idx <= Len(Symbols)
    /\ Cardinality(trades) < MaxTrades
    /\ \E inp \in Inputs(Symbols[idx]) :
         \E C \in {SymbolCommits(EngineState, Symbols[idx], inp, now)} :
             /\ scores' = update_symbol_data(scores, Symbols[idx], inp, now)
             /\ worker' = [worker EXCEPT !.pending = C]
             /\ idx' = IF C = <<>> THEN idx + 1 ELSE idx
    /\ UNCHANGED <<positions, trades, next_position_id, next_trade_id,
                   last_trade_time, now, reader, signals, initial_stop, fn,
                   adx_history, pm>>

\* the next commit of process_trading_signals; the iteration ends with its
\* last commit, and an exception ends the loop over the symbols
WorkerCommit ==
    /\ worker.pending # <<>>
    /\ \E R \in {Head(worker.pending)} :
             /\ positions' = R.positions
             /\ trades' = R.trades
             /\ next_position_id' = R.next_position_id
             /\ next_trade_id' = R.next_trade_id
             /\ last_trade_time' = R.last_trade_time
             /\ signals' = R.signals
             /\ idx' = IF R.raised THEN Len(Symbols) + 1
                       ELSE IF Len(worker.pending) = 1 THEN idx + 1
                       ELSE idx
             /\ initial_stop' = [id \in {p.id : p \in R.positions} |->
                                   IF id \in DOMAIN initial_stop THEN initial_stop[id]
                                   ELSE (CHOOSE p \in R.positions : p.id = id).stop_loss]
    /\ worker' = [worker EXCEPT !.pending = Tail(@)]
    /\ UNCHANGED <<now, reader, fn, scores, adx_history, pm>>

\* time.sleep(update_interval) at the end of a cycle
WorkerSleep ==
    /\ worker.phase = "loop"
    /\ idx = Len(Symbols) + 1
    /\ \E d \in CycleSeconds :
         /\ now + d <= MaxTime
         /\ now' = now + d
    /\ idx' = 1
    /\ UNCHANGED <<positions, trades, next_position_id, next_trade_id,
                   last_trade_time, reader, signals, initial_stop, fn, scores,
                   adx_history, pm, worker>>

SymbolSet == {Symbols[i] : i \in 1..Len(Symbols)}

Init ==
    /\ positions = {}
    /\ trades = {}
    /\ next_position_id = 1
    /\ next_trade_id = 1
    /\ last_trade_time = [s \in SymbolSet |-> NoTime]
    /\ now = 0
    /\ idx = 1
    /\ reader = [known |-> {}, positions |-> {}, trades |-> {},
                 got_positions |-> FALSE, got_trades |-> FALSE,
                 limit |-> None]
    /\ signals = {}
    /\ initial_stop = <<>>
    /\ fn = [op |-> "idle"]
    /\ scores = [s \in SymbolSet |-> NoTime]
    /\ adx_history = [s \in SymbolSet |-> <<>>]
    /\ pm = [S |-> [positions |-> {}, trades |-> {}, next_position_id |-> 1,
                    next_trade_id |-> 1,
                    last_trade_time |-> [s \in SymbolSet |-> NoTime],
                    signals |-> {}, raised |-> FALSE],
             opened |-> <<>>, closed_by |-> <<>>, now |-> 0]
    /\ worker = [phase |-> "populate", k |-> 1, pending |-> <<>>]

Next == InitialLoad \/ WorkerUpdate \/ WorkerCommit \/ WorkerSleep

Spec == Init /\ [][Next]_vars

-----------------------------------------------------------------------------
(* The API thread next to the worker: api_routes.py serves /api/positions and
   /api/trades as two requests, each a read of one table on a connection of
   its own. A client that wants both tables issues both requests, in either
   order, and the worker commits between them. *)

\* the fields of a row that both tables carry
EntryKey(row) == <<row.symbol, row.entry_time>>

\* the rows the database holds when a client starts reading
KnownEntries == {EntryKey(p) : p \in positions} \cup {EntryKey(r) : r \in trades}

\* GET /api/positions: get_open_positions() of the committed table
get_positions ==
    /\ ~reader.got_positions
    /\ reader' = [reader EXCEPT
                    !.known = IF reader.got_trades THEN @ ELSE KnownEntries,
                    !.positions = {EntryKey(p) : p \in positions},
                    !.got_positions = TRUE]
    /\ UNCHANGED <<positions, trades, next_position_id, next_trade_id,
                   last_trade_time, now, idx, signals, initial_stop, fn, scores, adx_history, pm, worker>>

\* the ?limit= argument of a request to /api/trades; None when it is absent
LimitArgs == {None, "20", "1", "0", "-1", "abc"}

\* the arguments int() accepts
IntLiterals == {"20", "1", "0", "-1"}

\* int(arg) of an argument int() accepts
int(arg) ==
    CASE arg = "20" -> 20
      [] arg = "1" -> 1
      [] arg = "0" -> 0
      [] arg = "-1" -> -1

\* GET /api/trades: limit = int(request.args.get('limit', 20)), then
\* get_recent_trades(limit); an argument that is no integer raises ValueError
\* and the client is served no rows
get_trades ==
    /\ ~reader.got_trades
    /\ \E arg \in LimitArgs :
         IF arg # None /\ arg \notin IntLiterals
         THEN reader' = reader
         ELSE \E limit \in {IF arg = None THEN 20 ELSE int(arg)} :
                  reader' = [reader EXCEPT
                      !.known = IF reader.got_positions THEN @ ELSE KnownEntries,
                      !.trades = {EntryKey(r) :
                                     r \in get_recent_trades(EngineState, limit)},
                      !.got_trades = TRUE,
                      !.limit = limit]
    /\ UNCHANGED <<positions, trades, next_position_id, next_trade_id,
                   last_trade_time, now, idx, signals, initial_stop, fn, scores, adx_history, pm, worker>>

\* the worker of SpecDb runs its first cycles only
DbWorkerUpdate == WorkerUpdate /\ now <= MaxDbTime

DbWorkerSleep == WorkerSleep /\ now' <= MaxDbTime

NextDb ==
    \/ InitialLoad
    \/ DbWorkerUpdate
    \/ WorkerCommit
    \/ DbWorkerSleep
    \/ get_positions
    \/ get_trades

SpecDb == Init /\ [][NextDb]_vars

-----------------------------------------------------------------------------
(* The pure functions, called on their own: fn records one call, its
   arguments drawn from the sets below, and what the function returned. *)

\* arguments of calculate_stop_loss as execute_entry passes them; the entry
\* price is the current price as fetched, which is not a whole number of cents
FnDirections == {"LONG", "SHORT"}
FnEntryPrices == {80000, 200000, 200004, 200006}
FnSwingLows == {70000, 190000, 193000, 200000}
FnSwingHighs == {90000, 207000, 210000}
FnAtrs == {0, 3000, 4000}
FnSupertrendScores == {0, 5000, 10000}

\* calculate_stop_loss followed by calculate_target_price, as in execute_entry
call_calculate_target_price ==
    /\ fn.op = "idle"
    /\ \E direction \in FnDirections, entry_price \in FnEntryPrices,
          swing_low \in FnSwingLows, swing_high \in FnSwingHighs,
          atr \in FnAtrs, score \in FnSupertrendScores :
         LET stop_loss == calculate_stop_loss(direction, entry_price, swing_low,
                                              swing_high, atr, ScoreAsPrice(score))
         IN  fn' = [op |-> "calculate_target_price", direction |-> direction,
                    entry_price |-> entry_price, stop_loss |-> stop_loss,
                    target |-> calculate_target_price(direction, entry_price, stop_loss)]
    /\ UNCHANGED <<positions, trades, next_position_id, next_trade_id,
                   last_trade_time, now, idx, reader, signals, initial_stop, scores,
                   adx_history, pm, worker>>

\* weighted scores around the classification thresholds, and the extremes
FnScores == {0, 3499, 3500, 3501, 4499, 4500, 4501, 5499, 5500, 5501,
             6499, 6500, 6501, 10000}

\* weighted indicators: all four alike, or rsi apart from the other three.
\* Master scores that fall exactly between two hundredths are left out: how
\* round() breaks such a tie depends on the binary float.
FnWeighted ==
    {w \in {[rsi |-> a, macd |-> b, adx |-> b, supertrend |-> b] : a, b \in FnScores} :
        master_score_raw(w) % 100 # 50}

call_calculate_master_score ==
    /\ fn.op = "idle"
    /\ \E w \in FnWeighted :
         fn' = [op |-> "calculate_master_score", weighted_indicators |-> w,
                master_score |-> calculate_master_score(w),
                classification |-> classification(w)]
    /\ UNCHANGED <<positions, trades, next_position_id, next_trade_id,
                   last_trade_time, now, idx, reader, signals, initial_stop, scores,
                   adx_history, pm, worker>>

\* interval scores: any subset of the intervals, two score records each
FnIntervalScores ==
    UNION {[is -> {ScReversalUp, ScReversalDown}] : is \in SUBSET Intervals}

\* weight maps: any subset of the intervals configured, with these weights
FnWeights == {-1, 0, 1, 3}
FnWeightMaps == UNION {[is -> FnWeights] : is \in SUBSET Intervals}

call_calculate_weighted_indicators ==
    /\ fn.op = "idle"
    /\ \E interval_scores \in FnIntervalScores, timeframe_weights \in FnWeightMaps :
         fn' = [op |-> "calculate_weighted_indicators",
                interval_scores |-> interval_scores,
                timeframe_weights |-> timeframe_weights,
                weighted |-> calculate_weighted_indicators(interval_scores,
                                                           timeframe_weights)]
    /\ UNCHANGED <<positions, trades, next_position_id, next_trade_id,
                   last_trade_time, now, idx, reader, signals, initial_stop, scores,
                   adx_history, pm, worker>>

\* an OPEN position as open_position stores it (entry_time 0, id 1)
FnPosition(direction, entry_price, stop_loss, target) ==
    [id |-> 1, symbol |-> "AAA", direction |-> direction,
     entry_price |-> entry_price * 1000, stop_loss |-> stop_loss * 1000,
     target |-> target * 1000, position_size |-> 3000, entry_time |-> 0,
     setup_type |-> "Reversal"]

FnPositions == {FnPosition("LONG", 100, 95, 110), FnPosition("SHORT", 100, 105, 90)}

\* current prices of the cycles that manage the position
FnCyclePrices == {92500, 97500, 100500, 102500, 104000, 107500}

\* cycles of manage_existing_positions on one position
MaxFnCycles == 2

\* a position is handed to manage_existing_positions
call_manage_existing_positions ==
    /\ fn.op = "idle"
    /\ \E position \in FnPositions :
         fn' = [op |-> "manage_existing_positions", initial |-> position,
                open_positions |-> {position}, prices |-> <<>>]
    /\ UNCHANGED <<positions, trades, next_position_id, next_trade_id,
                   last_trade_time, now, idx, reader, signals, initial_stop, scores,
                   adx_history, pm, worker>>

\* one cycle: manage_existing_positions at a current price, with a neutral
\* master score and weighted supertrend, 300 seconds after the previous cycle
cycle_manage_existing_positions ==
    /\ fn.op = "manage_existing_positions"
    /\ Len(fn.prices) < MaxFnCycles
    /\ fn.open_positions # {}
    /\ \E current_price \in FnCyclePrices :
         LET S == [EngineState EXCEPT !.positions = fn.open_positions]
             R == manage_existing_positions(S, "AAA", current_price, 5000, 5000,
                                            300 * (Len(fn.prices) + 1))
         IN  fn' = [fn EXCEPT !.open_positions = R.positions,
                              !.prices = Append(@, current_price)]
    /\ UNCHANGED <<positions, trades, next_position_id, next_trade_id,
                   last_trade_time, now, idx, reader, signals, initial_stop, scores,
                   adx_history, pm, worker>>

\* OPEN positions of symbol AAA as execute_entry stores them with an account
\* balance of 100 (size = 1.5 / risk per unit): risk 5, risk 6, and risk 0
FnExitPosition(direction, entry_price, stop_loss, target, position_size) ==
    [id |-> 1, symbol |-> "AAA", direction |-> direction,
     entry_price |-> entry_price, stop_loss |-> stop_loss, target |-> target,
     position_size |-> position_size, entry_time |-> 0, setup_type |-> "Breakout"]

FnExitPositions ==
    {FnExitPosition("LONG", 100000, 95000, 110000, 3000),
     FnExitPosition("SHORT", 100000, 105000, 90000, 3000),
     FnExitPosition("LONG", 100000, 94000, 112000, 2500),
     FnExitPosition("LONG", 100000, 100000, 100000, 0)}

FnExitPrices == {90000, 95000, 99990, 100000, 100010, 105000, 110000, 112000}
FnExitMasterScores == {4000, 5000, 6000}
FnExitSupertrends == {3000, 5000, 7000}
\* seconds between the entry and the cycle
FnExitElapsed == {300, 14400, 14700}

\* one cycle of manage_existing_positions on one OPEN position: the reason
\* check_exit_conditions returns, and the tables after the cycle
call_check_exit_conditions ==
    /\ fn.op = "idle"
    /\ \E position \in FnExitPositions, current_price \in FnExitPrices,
          master_score \in FnExitMasterScores,
          weighted_supertrend \in FnExitSupertrends, elapsed \in FnExitElapsed :
         LET S == [EngineState EXCEPT !.positions = {position}, !.trades = {},
                                      !.next_trade_id = 1]
             R == manage_existing_positions(S, "AAA", current_price, master_score,
                                            weighted_supertrend, elapsed)
         IN  fn' = [op |-> "check_exit_conditions", position |-> position,
                    current_price |-> current_price, master_score |-> master_score,
                    weighted_supertrend |-> weighted_supertrend, elapsed |-> elapsed,
                    exit_reason |-> check_exit_conditions(position, current_price,
                                        master_score, weighted_supertrend,
                                        position.entry_time, elapsed),
                    positions |-> R.positions, trades |-> R.trades,
                    raised |-> R.raised]
    /\ UNCHANGED <<positions, trades, next_position_id, next_trade_id,
                   last_trade_time, now, idx, reader, signals, initial_stop, scores,
                   adx_history, pm, worker>>

\* arguments of detect_breakout_setup at a current price of 200
FnSetupMasterScores == {4400, 4500, 5000, 5500, 5600}
FnSetupRsis == {2900, 3000, 5000, 7000, 7100}
FnSetupSupports == {190000, 198000, 198010, 199500}
FnSetupResistances == {200500, 201990, 202000, 210000}
\* ADX histories (oldest first) of 0, 3, 4 and 5 samples
FnAdxHistories ==
    {<<>>, <<2000, 3000, 4000>>,
     <<2000, 3000, 4000, 2900>>, <<2000, 3000, 4000, 3000>>,
     <<2000, 3000, 4000, 3100>>, <<2000, 3000, 4100, 3000>>,
     <<2000, 3000, 3900, 3000>>,
     <<9000, 2000, 3000, 4000, 3100>>, <<1000, 4000, 4000, 4000, 3900>>}

\* detect_breakout_setup is called; weighted_adx is the newest sample when
\* there is one
call_detect_breakout_setup ==
    /\ fn.op = "idle"
    /\ \E master_score \in FnSetupMasterScores, weighted_rsi \in FnSetupRsis,
          support \in FnSetupSupports, resistance \in FnSetupResistances,
          history \in FnAdxHistories :
         LET weighted_adx == IF history = <<>> THEN 5000 ELSE history[Len(history)]
         IN  fn' = [op |-> "detect_breakout_setup", master_score |-> master_score,
                    weighted_rsi |-> weighted_rsi, current_price |-> 200000,
                    support |-> support, resistance |-> resistance,
                    adx_history |-> history,
                    direction |-> detect_breakout_setup(master_score, weighted_rsi,
                                      200000, support, resistance, weighted_adx,
                                      history)]
    /\ UNCHANGED <<positions, trades, next_position_id, next_trade_id,
                   last_trade_time, now, idx, reader, signals, initial_stop, scores,
                   adx_history, pm, worker>>

\* arguments of calculate_position_size: settings['account_balance'], the
\* entry price and the stop of calculate_stop_loss (risk_percent is defaulted)
FnBalances == {100, 1000}
FnSizeEntries == {80000, 200000}
FnSizeStops == {74000, 80000, 100000, 193000, 192807, 194000, 200000, 200001,
                207000, 210210}

\* calculate_position_size is called as execute_entry calls it
call_calculate_position_size ==
    /\ fn.op = "idle"
    /\ \E balance \in FnBalances, entry_price \in FnSizeEntries,
          stop_loss \in FnSizeStops :
         fn' = [op |-> "calculate_position_size", account_balance |-> balance,
                entry_price |-> entry_price, stop_loss |-> stop_loss,
                position_size |-> calculate_position_size(balance, entry_price,
                                                          stop_loss)]
    /\ UNCHANGED <<positions, trades, next_position_id, next_trade_id,
                   last_trade_time, now, idx, reader, signals, initial_stop, scores,
                   adx_history, pm, worker>>

\* indicators.calculate_adx_score on the last row (ADX, +DI, -DI) of
\* pandas_ta.adx, in hundredths: the 0..100 score the worker aggregates
calculate_adx_score(adx_val, dmp, dmn) ==
    IF dmp > dmn THEN adx_val ELSE 10000 - adx_val

\* MultiIndicatorScore.calculate_adx_score on its adx, plus_di and minus_di, in
\* hundredths: the score on the symmetric scale -100..100
MultiIndicatorScore_calculate_adx_score(adx, plus_di, minus_di) ==
    IF adx < 2500 THEN 0
    ELSE LET strength == Min2(10000, (adx - 2500) * 4)
         IN  IF plus_di > minus_di THEN strength ELSE -strength

\* ADX and directional-indicator values, in hundredths
FnAdxValues == {1000, 2000, 2499, 2500, 3000, 5000, 6000}
FnDiValues == {1000, 2000, 3000}

\* the two ADX scores are computed from the same ADX, +DI and -DI
call_calculate_adx_score ==
    /\ fn.op = "idle"
    /\ \E adx_val \in FnAdxValues, dmp \in FnDiValues, dmn \in FnDiValues :
         fn' = [op |-> "calculate_adx_score", adx |-> adx_val, plus_di |-> dmp,
                minus_di |-> dmn,
                score |-> calculate_adx_score(adx_val, dmp, dmn),
                symmetric |-> MultiIndicatorScore_calculate_adx_score(adx_val, dmp,
                                                                      dmn)]
    /\ UNCHANGED <<positions, trades, next_position_id, next_trade_id,
                   last_trade_time, now, idx, reader, signals, initial_stop, scores,
                   adx_history, pm, worker>>

\* ---- the monolithic engine: server_app.process_trading_signals ----

\* the engine states the signal detection and the entry checks of
\* server_app.process_trading_signals commit one after the other: log_signal
\* for a reversal setup, log_signal for a breakout setup (history is
\* adx_history.get(symbol, [])), then execute_entry_signal
server_app_signal_detection(S, symbol, master_score, weighted_indicators, current_price, interval_scores, interval_1h, rsi_extreme, history, t) ==
    LET reversal_direction ==
            detect_reversal_setup(master_score, weighted_indicators.rsi, rsi_extreme,
                                  current_price, interval_1h.support,
                                  interval_1h.resistance, weighted_indicators.adx)
        S1 == IF reversal_direction = None THEN S
              ELSE log_signal(S, symbol, "REVERSAL_SETUP", reversal_direction,
                              master_score, t)
        breakout_direction ==
            detect_breakout_setup(master_score, weighted_indicators.rsi,
                                  current_price, interval_1h.support,
                                  interval_1h.resistance, weighted_indicators.adx,
                                  history)
        S2 == IF breakout_direction = None THEN S1
              ELSE log_signal(S1, symbol, "BREAKOUT_SETUP", breakout_direction,
                              master_score, t)
        supertrend_scores == [i \in DOMAIN interval_scores |->
                                 interval_scores[i].supertrend_score]
        rule == EntryRule(master_score, weighted_indicators.macd, supertrend_scores,
                          current_price, interval_1h.support, interval_1h.resistance,
                          interval_1h.high_volume, reversal_direction)
        S3 == IF rule.direction = None THEN S2
              ELSE execute_entry(S2, rule.direction, rule.setup_type, symbol,
                                 current_price, interval_1h.swing_low,
                                 interval_1h.swing_high, interval_1h.atr,
                                 interval_1h, t)
    IN  (IF S1 = S THEN <<>> ELSE <<S1>>)
        \o (IF S2 = S1 THEN <<>> ELSE <<S2>>)
        \o (IF S3 = S2 THEN <<>> ELSE <<S3>>)

\* the engine states one call of server_app.process_trading_signals at time t
\* commits: the open positions are read once, before the exits, and that list
\* decides whether entries are looked for; rsi_extreme is the flag stored with
\* the 1h scores
server_app_commits(S, symbol, master_score, weighted_indicators, interval_scores, current_price, history, t) ==
    IF ~check_risk_limits(S, t) THEN <<>>
    ELSE LET interval_1h == Interval1h(interval_scores, current_price)
             open_positions == get_open_positions(S, symbol)
         IN  IF ~check_market_filters(weighted_indicators.adx, interval_1h.atr,
                                      interval_1h.avg_atr_20)
             THEN <<>>
             ELSE LET M == ManageCommits(S, open_positions, current_price,
                               master_score, weighted_indicators.supertrend, t)
                      S1 == IF M = <<>> THEN S ELSE M[Len(M)]
                  IN  IF S1.raised THEN M
                      ELSE IF open_positions # {} THEN M
                      ELSE IF ~check_cooldown(S1.last_trade_time, symbol, t) THEN M
                      ELSE M \o server_app_signal_detection(S1, symbol, master_score,
                                    weighted_indicators, current_price,
                                    interval_scores, interval_1h,
                                    interval_1h.rsi_extreme, history, t)

\* the state server_app.process_trading_signals leaves: that of its last commit
server_app_process_trading_signals(S, symbol, master_score, weighted_indicators, interval_scores, current_price, history, t) ==
    LET C == server_app_commits(S, symbol, master_score, weighted_indicators,
                                interval_scores, current_price, history, t)
    IN  IF C = <<>> THEN S ELSE C[Len(C)]

\* server_app.update_symbol_data for symbol at time t, on the current price
\* and the scores of the intervals that delivered candles: the engine state it
\* leaves, whether it saved a row of scores, and the symbol's ADX history.
\* scores['total_score'] in the print of each interval raises KeyError when
\* the dict, which holds the keys of calculate_all_scores and master_score,
\* has no such key; nothing on the way to process_trading_signals looks at
\* current_price.
server_app_update_symbol_data(S, symbol, inp, history, t) ==
    LET interval_scores == inp.interval_scores
    IN  IF \E i \in DOMAIN interval_scores :
               "total_score" \notin (DOMAIN interval_scores[i] \cup {"master_score"})
        THEN [S |-> [S EXCEPT !.raised = TRUE], saved |-> FALSE,
              adx_history |-> history]
        ELSE IF DOMAIN interval_scores = {}
        THEN [S |-> S, saved |-> FALSE, adx_history |-> history]
        ELSE LET weighted_indicators ==
                     calculate_weighted_indicators(interval_scores, timeframeWeights)
                 appended == Append(history, weighted_indicators.adx)
                 last10 == IF Len(appended) <= 10 THEN appended
                           ELSE SubSeq(appended, Len(appended) - 9, Len(appended))
             IN  [S |-> server_app_process_trading_signals(S, symbol,
                            calculate_master_score(weighted_indicators),
                            weighted_indicators, interval_scores,
                            inp.current_price, last10, t),
                  saved |-> TRUE, adx_history |-> last10]

\* 1h scores with an RSI of 68 next to a resistance, bearish otherwise
ScNearExtreme == Sc(68, 0, 40, 50, 190, 199, FALSE, 3, 3, 190, 210)
\* a breakout above resistance with an ATR of three times its average
ScBreakoutVolatile == Sc(50, 60, 60, 100, 190, 199, TRUE, 9, 3, 190, 210)
\* a breakout above resistance with an ADX score of 10
ScBreakoutChoppy == Sc(50, 100, 10, 100, 190, 199, TRUE, 3, 3, 190, 210)
\* 1h scores of an RSI of 70.004, stored as 70.0 with the extreme flag set
ScRsiAbove70 == ScRsi(70004, 0, 40, 50, 190, 199, FALSE, 3, 3, 190, 210)
\* 1h scores of an RSI of 29.996, stored as 30.0 with the extreme flag set
ScRsiBelow30 == ScRsi(29996, 100, 60, 50, 201, 210, FALSE, 3, 3, 190, 210)

\* cycle inputs given to both engines for symbol AAA
FnEngineInputs ==
    {In(200, Only1h(sc)) : sc \in {ScBreakoutUp, ScReversalDown, ScReversalUp,
                                    ScNeutral, ScNearExtreme, ScBreakoutVolatile,
                                    ScBreakoutChoppy}}
    \cup {In(p, Only1h(ScNeutral)) : p \in {184, 212}}
    \cup {In(170, Only1h(ScBreakoutDown))}
    \cup {In(200, [i \in Intervals |-> IF i = "1h" THEN ScNearExtreme
                                                  ELSE ScReversalDown]),
          In(200, [i \in Intervals |-> IF i = "1h" THEN ScRsiAbove70
                                                  ELSE ScReversalDown]),
          In(200, [i \in Intervals |-> IF i = "1h" THEN ScRsiBelow30
                                                  ELSE ScReversalUp])}

\* cycles given to the two engines
MaxFnEngineCycles == 2
\* seconds between two cycles
FnEnginePeriod == 3600

\* both engines start from the state of a fresh database
call_process_trading_signals ==
    /\ fn.op = "idle"
    /\ fn' = [op |-> "process_trading_signals", modular |-> EngineState,
              monolithic |-> EngineState, previous |-> EngineState,
              inputs |-> <<>>, pending |-> <<>>]
    /\ UNCHANGED <<positions, trades, next_position_id, next_trade_id,
                   last_trade_time, now, idx, reader, signals, initial_stop, scores,
                   adx_history, pm, worker>>

\* the commits of a sequence of engine states, for the database of one engine
CommitsOf(engine, states) == [k \in 1..Len(states) |-> [engine |-> engine, S |-> states[k]]]

\* one cycle begins: the same input for symbol AAA is given to both engines,
\* the modular one first; pending are the commits the two calls make, previous
\* is the modular engine's state before the cycle
cycle_process_trading_signals ==
    /\ fn.op = "process_trading_signals"
    /\ fn.pending = <<>>
    /\ Len(fn.inputs) < MaxFnEngineCycles
    /\ ~fn.modular.raised /\ ~fn.monolithic.raised
    /\ \E inp \in FnEngineInputs :
         LET t == FnEnginePeriod * (Len(fn.inputs) + 1)
         IN  fn' = [fn EXCEPT
                 !.previous = fn.modular,
                 !.pending =
                     CommitsOf("modular",
                         process_trading_signals_commits(fn.modular, "AAA",
                             MasterOf(inp), WeightedOf(inp), inp.interval_scores,
                             inp.current_price, t))
                     \o CommitsOf("monolithic",
                            server_app_commits(fn.monolithic, "AAA", MasterOf(inp),
                                WeightedOf(inp), inp.interval_scores,
                                inp.current_price, adx_history["AAA"], t)),
                 !.inputs = Append(@, inp)]
    /\ UNCHANGED <<positions, trades, next_position_id, next_trade_id,
                   last_trade_time, now, idx, reader, signals, initial_stop, scores,
                   adx_history, pm, worker>>

\* the next commit of the cycle reaches the database of its engine
commit_process_trading_signals ==
    /\ fn.op = "process_trading_signals"
    /\ fn.pending # <<>>
    /\ fn' = IF Head(fn.pending).engine = "modular"
             THEN [fn EXCEPT !.modular = Head(fn.pending).S, !.pending = Tail(@)]
             ELSE [fn EXCEPT !.monolithic = Head(fn.pending).S, !.pending = Tail(@)]
    /\ UNCHANGED <<positions, trades, next_position_id, next_trade_id,
                   last_trade_time, now, idx, reader, signals, initial_stop, scores,
                   adx_history, pm, worker>>

\* ---- calculate_support_resistance ----

\* series.tail(n)
SeqTail(s, n) == IF Len(s) <= n THEN s ELSE SubSeq(s, Len(s) - n + 1, Len(s))

\* series.max() and series.min() of a non-empty series
SeqMax(s) == CHOOSE x \in {s[k] : k \in 1..Len(s)} : \A k \in 1..Len(s) : x >= s[k]

SeqMin(s) == CHOOSE x \in {s[k] : k \in 1..Len(s)} : \A k \in 1..Len(s) : x <= s[k]

\* round(x, 2) of a price of n / 3 thousandths, in thousandths
RoundThird(n) == 10 * RoundDiv(n, 30)

\* calculate_support_resistance with the first close of the window as the
\* pivot's close and as the current price
calculate_support_resistance_first_close(high, low, close, lookback) ==
    LET h == SeqMax(SeqTail(high, lookback))
        l == SeqMin(SeqTail(low, lookback))
        c == SeqTail(close, lookback)[1]
        pivot3 == h + l + c
        resistance1 == 2 * pivot3 - 3 * l
        resistance2 == pivot3 + 3 * (h - l)
        support1 == 2 * pivot3 - 3 * h
        support2 == pivot3 - 3 * (h - l)
    IN  [support |-> RoundThird(IF support1 < 3 * c THEN support1 ELSE support2),
         resistance |-> RoundThird(IF resistance1 > 3 * c THEN resistance1
                                   ELSE resistance2)]

\* (support, resistance) of calculate_support_resistance for non-empty series
\* of prices in thousandths; pivot3 and the four levels are three times the
\* code's values
calculate_support_resistance(high, low, close, lookback) ==
    LET h == SeqMax(SeqTail(high, lookback))
        l == SeqMin(SeqTail(low, lookback))
        c == close[Len(close)]
        pivot3 == h + l + c
        resistance1 == 2 * pivot3 - 3 * l
        resistance2 == pivot3 + 3 * (h - l)
        support1 == 2 * pivot3 - 3 * h
        support2 == pivot3 - 3 * (h - l)
    IN  [support |-> RoundThird(IF support1 < 3 * c THEN support1 ELSE support2),
         resistance |-> RoundThird(IF resistance1 > 3 * c THEN resistance1
                                   ELSE resistance2)]

\* prices of the candles, in thousandths
FnCandlePrices == {99000, 100000, 100004, 100005, 101000}

\* candles [high, low, close] with low <= close <= high
FnCandles ==
    {cd \in [high : FnCandlePrices, low : FnCandlePrices, close : FnCandlePrices] :
        cd.low <= cd.close /\ cd.close <= cd.high}

\* candles of a series
MaxFnCandles == 2

\* series of one to MaxFnCandles candles
FnCandleSeries == UNION {[1..n -> FnCandles] : n \in 1..MaxFnCandles}

\* none of the four levels of the window lies exactly between two hundredths
\* (how round() breaks such a tie depends on the binary float)
FnNoLevelTie(high, low, close, lookback) ==
    LET h == SeqMax(SeqTail(high, lookback))
        l == SeqMin(SeqTail(low, lookback))
        c == close[Len(close)]
        pivot3 == h + l + c
    IN  \A n \in {2 * pivot3 - 3 * l, pivot3 + 3 * (h - l), 2 * pivot3 - 3 * h,
                  pivot3 - 3 * (h - l)} : n % 30 # 15

\* the lookback of the call: the default of 20 candles, or the last candle only
FnLookbacks == {1, 20}

call_calculate_support_resistance ==
    /\ fn.op = "idle"
    /\ \E cs \in FnCandleSeries, lookback \in FnLookbacks :
         LET high == [k \in 1..Len(cs) |-> cs[k].high]
             low == [k \in 1..Len(cs) |-> cs[k].low]
             close == [k \in 1..Len(cs) |-> cs[k].close]
             levels == calculate_support_resistance(high, low, close, lookback)
         IN  /\ FnNoLevelTie(high, low, close, lookback)
             /\ fn' = [op |-> "calculate_support_resistance", high |-> high,
                       low |-> low, close |-> close, lookback |-> lookback,
                       support |-> levels.support,
                       resistance |-> levels.resistance]
    /\ UNCHANGED <<positions, trades, next_position_id, next_trade_id,
                   last_trade_time, now, idx, reader, signals, initial_stop, scores,
                   adx_history, pm, worker>>

\* the engine state update_symbol_data is called on: the fresh database
\* after open_position of a LONG breakout of AAA at 200 with its stop at 194
FnOpenLong ==
    open_position(EngineState, "AAA", "LONG", 200000, 194000, 212000, 2500,
                  "Breakout", 0)

\* what fetch_current_price and the candle fetches of update_symbol_data
\* return for AAA: an unknown price (0) or 200, 170 or 212, with candles for
\* the 1h interval, for both intervals or for none
FnUpdateInputs ==
    {In(p, isc) : p \in {0, 170, 200, 212},
                  isc \in {<<>>, Only1h(ScNeutral), Only1h(ScBreakoutUp),
                           [i \in Intervals |-> ScNeutral]}}

\* server_app.update_symbol_data('AAA') an hour after the position was opened
call_update_symbol_data ==
    /\ fn.op = "idle"
    /\ \E inp \in FnUpdateInputs :
         fn' = [op |-> "update_symbol_data", before |-> FnOpenLong, inputs |-> inp,
                result |-> server_app_update_symbol_data(FnOpenLong, "AAA", inp,
                               adx_history["AAA"], 3600)]
    /\ UNCHANGED <<positions, trades, next_position_id, next_trade_id,
                   last_trade_time, now, idx, reader, signals, initial_stop, scores,
                   adx_history, pm, worker>>

\* the call returns
fn_return ==
    /\ fn.op # "idle"
    /\ fn.op = "process_trading_signals" => fn.pending = <<>>
    /\ fn' = [op |-> "idle"]
    /\ UNCHANGED <<positions, trades, next_position_id, next_trade_id,
                   last_trade_time, now, idx, reader, signals, initial_stop, scores,
                   adx_history, pm, worker>>

NextFn ==
    \/ call_calculate_target_price
    \/ call_calculate_master_score
    \/ call_calculate_weighted_indicators
    \/ call_manage_existing_positions
    \/ cycle_manage_existing_positions
    \/ call_check_exit_conditions
    \/ call_detect_breakout_setup
    \/ call_calculate_position_size
    \/ call_calculate_adx_score
    \/ call_process_trading_signals
    \/ cycle_process_trading_signals
    \/ commit_process_trading_signals
    \/ call_calculate_support_resistance
    \/ call_update_symbol_data
    \/ fn_return

SpecFn == Init /\ [][NextFn]_vars

-----------------------------------------------------------------------------
(* PositionManager called directly, in any order: open_position,
   update_stop_loss and close_position on any id, and the clock. *)

\* positions opened in all
MaxPmOpened == 2
\* the clock of the calls stops here
MaxPmTime == 300
\* rows logged to table signals in all
MaxPmSignals == 1

\* arguments of open_position: [direction, entry_price, stop_loss, target,
\* position_size, setup_type]
PmEntries ==
    {[direction |-> "LONG", entry_price |-> 100000, stop_loss |-> 95000,
      target |-> 110000, position_size |-> 3000, setup_type |-> "Breakout"],
     [direction |-> "SHORT", entry_price |-> 100000, stop_loss |-> 105000,
      target |-> 90000, position_size |-> 3000, setup_type |-> "Reversal"],
     [direction |-> "LONG", entry_price |-> 100000, stop_loss |-> 100000,
      target |-> 100000, position_size |-> 0, setup_type |-> "Breakout"]}

\* ids passed to update_stop_loss and close_position: every id given out so
\* far and one that was never given
PmIds == 1..(MaxPmOpened + 1)

PmStops == {100000, 102000}

PmExits == {[exit_price |-> 110000, exit_reason |-> "Target Hit"],
            [exit_price |-> 95000, exit_reason |-> "Stop Loss Hit"]}

\* arguments of log_signal: [signal_type, direction, master_score]
PmSignals ==
    {[signal_type |-> "REVERSAL_SETUP", direction |-> "BEARISH", master_score |-> 4050]}

UnchangedButPm ==
    UNCHANGED <<positions, trades, next_position_id, next_trade_id, last_trade_time,
                now, idx, reader, signals, initial_stop, fn, scores, adx_history, worker>>

pm_open_position ==
    /\ pm.S.next_position_id <= MaxPmOpened
    /\ \E e \in PmEntries :
         LET R == open_position(pm.S, "AAA", e.direction, e.entry_price, e.stop_loss,
                                e.target, e.position_size, e.setup_type, pm.now)
             id == pm.S.next_position_id
         IN  pm' = [pm EXCEPT
                      !.S = R,
                      !.opened = [i \in DOMAIN pm.opened \cup {id} |->
                                     IF i = id
                                     THEN CHOOSE r \in R.positions : r.id = id
                                     ELSE pm.opened[i]]]
    /\ UnchangedButPm

pm_update_stop_loss ==
    /\ \E position_id \in PmIds, new_stop_loss \in PmStops :
         pm' = [pm EXCEPT !.S = update_stop_loss(pm.S, position_id, new_stop_loss)]
    /\ UnchangedButPm

\* close_position; an exception goes to the caller and leaves the tables as
\* they were
pm_close_position ==
    /\ \E position_id \in PmIds, x \in PmExits :
         LET R == close_position(pm.S, position_id, x.exit_price, x.exit_reason, pm.now)
             trade_id == pm.S.next_trade_id
         IN  pm' = [pm EXCEPT
                      !.S = [R EXCEPT !.raised = FALSE],
                      !.closed_by = IF R.next_trade_id = trade_id THEN @
                                    ELSE [i \in DOMAIN @ \cup {trade_id} |->
                                             IF i = trade_id THEN position_id
                                             ELSE @[i]]]
    /\ UnchangedButPm

\* log_signal: a row of table signals, and no other table changes
pm_log_signal ==
    /\ Cardinality(pm.S.signals) < MaxPmSignals
    /\ \E g \in PmSignals :
         pm' = [pm EXCEPT !.S = log_signal(pm.S, "AAA", g.signal_type, g.direction,
                                           g.master_score, pm.now)]
    /\ UnchangedButPm

\* time passes between two calls
pm_tick ==
    /\ pm.now + 300 <= MaxPmTime
    /\ pm' = [pm EXCEPT !.now = @ + 300]
    /\ UnchangedButPm

NextPm ==
    \/ pm_open_position
    \/ pm_update_stop_loss
    \/ pm_close_position
    \/ pm_log_signal
    \/ pm_tick

SpecPm == Init /\ [][NextPm]_vars

-----------------------------------------------------------------------------
(* Vocabulary of the properties *)

\* the worker is about to run the loop body for CurSymbol
StepEnabled ==
    /\ worker.phase = "loop" /\ worker.pending = <<>>
    /\ idx <= Len(Symbols) /\ Cardinality(trades) < MaxTrades

CurSymbol == Symbols[idx]

\* the engine state the loop body leaves for input inp
Result(inp) == SymbolResult(EngineState, CurSymbol, inp, now)

Ids(rows) == {r.id : r \in rows}

\* positions opened by the step that leads from the current state to R
NewPositions(R) == {p \in R.positions : p.id >= next_position_id}

\* the market filter lets input inp through
FilterOK(inp) ==
    LET i1h == Interval1h(inp.interval_scores, inp.current_price)
    IN  check_market_filters(WeightedOf(inp).adx, i1h.atr, i1h.avg_atr_20)

\* the price has reached the target or the stop-loss of position p
TargetOrStopReached(p, price) ==
    IF p.direction = "LONG" THEN price >= p.target \/ price <= p.stop_loss
    ELSE price <= p.target \/ price >= p.stop_loss

\* one of the four entry rules passes on input inp
Qualifies(inp) ==
    LET wi == WeightedOf(inp)
        i1h == Interval1h(inp.interval_scores, inp.current_price)
        rev == detect_reversal_setup(MasterOf(inp), wi.rsi,
                                     wi.rsi > 7000 \/ wi.rsi < 3000, inp.current_price,
                                     i1h.support, i1h.resistance, wi.adx)
    IN  AllTruthy(inp) /\ FilterOK(inp)
        /\ EntryRule(MasterOf(inp), wi.macd,
                     [i \in DOMAIN inp.interval_scores |->
                         inp.interval_scores[i].supertrend_score],
                     inp.current_price, i1h.support, i1h.resistance, i1h.high_volume,
                     rev).direction # None

\* every position ever opened: the open ones and the closed ones
Entries ==
    {[symbol |-> p.symbol, entry_time |-> p.entry_time, open |-> TRUE, id |-> p.id]
        : p \in positions}
    \cup {[symbol |-> r.symbol, entry_time |-> r.entry_time, open |-> FALSE, id |-> r.id]
        : r \in trades}

-----------------------------------------------------------------------------
(* C1 *)

\* C1: when the Risk Gate rejects for a symbol in a cycle, that cycle still
\* evaluates exits for the symbol's OPEN positions: a position whose target or
\* stop-loss the cycle's price has reached is closed by the step.
C1_ExitsRunWhenGateRejects ==
    StepEnabled =>
        \A inp \in Inputs(CurSymbol) :
            (AllTruthy(inp) /\ FilterOK(inp) /\ ~check_risk_limits(EngineState, now)) =>
                \A p \in get_open_positions(EngineState, CurSymbol) :
                    TargetOrStopReached(p, inp.current_price) =>
                        p.id \notin Ids(Result(inp).positions)

-----------------------------------------------------------------------------
(* C2 *)

\* C2: in every reachable state each symbol has at most one OPEN position.
C2_OneOpenPositionPerSymbol ==
    \A p \in positions : \A q \in positions : p.symbol = q.symbol => p = q

\* a symbol holds an OPEN position that stays open, an entry rule passes on
\* its input with the risk gate and the cooldown letting it through, and the
\* step opens nothing
C2_Witness ==
    /\ StepEnabled
    /\ \E inp \in Inputs(CurSymbol) :
         /\ Qualifies(inp)
         /\ check_risk_limits(EngineState, now)
         /\ check_cooldown(last_trade_time, CurSymbol, now)
         /\ get_open_positions(EngineState, CurSymbol) # {}
         /\ Result(inp).positions = positions

-----------------------------------------------------------------------------
(* C3 *)

\* C3: in every reachable state at most 3 positions are OPEN over all symbols.
C3_AtMostThreeOpen == Cardinality(positions) <= 3

\* 3 positions are open, a symbol without a position gets an input on which an
\* entry rule passes, and the step opens nothing
C3_Witness ==
    /\ StepEnabled
    /\ Cardinality(positions) = 3
    /\ get_open_positions(EngineState, CurSymbol) = {}
    /\ check_cooldown(last_trade_time, CurSymbol, now)
    /\ \E inp \in Inputs(CurSymbol) :
         Qualifies(inp) /\ Result(inp).positions = positions

-----------------------------------------------------------------------------
(* C4 *)

\* C4: at no time have more than 2 positions been opened in any 60-minute
\* window, whether they are still open or already closed.
C4_AtMostTwoEntriesPerHour ==
    \A e \in Entries :
        Cardinality({x \in Entries : /\ x.entry_time >= e.entry_time
                                     /\ x.entry_time < e.entry_time + 3600}) <= 2

-----------------------------------------------------------------------------
(* C5 *)

\* the day's realized P&L: the pnl of the trades closed since midnight
DayPnl == SumPnl({r \in trades : r.exit_time >= now - (now % 86400)})

\* 4% of the account balance, in pnl units
LossLimit == account_balance * 400000

\* C5: no position is opened while the day's realized P&L is below -4% of the
\* account balance: for every OPEN position of the modular engine, the trades
\* closed on the day of its entry, up to and including the call that opened
\* it (a call closes before it opens), sum to a P&L of -4% of the balance or
\* better.
C5_NoEntryBelowDailyLossLimit ==
    fn.op = "process_trading_signals" =>
        \A p \in fn.modular.positions :
            SumPnl({r \in fn.modular.trades :
                       /\ r.exit_time >= today_start(p.entry_time)
                       /\ r.exit_time <= p.entry_time}) >= -LossLimit

\* the risk gate as a call evaluates it, on the state the call starts from: a
\* step of the worker that starts with the day's P&L below the limit changes
\* neither table, and one that starts at exactly the limit is not rejected
DailyLossGateAtCallStart ==
    StepEnabled =>
        \A inp \in Inputs(CurSymbol) :
            /\ DayPnl < -LossLimit =>
                   /\ Result(inp).positions = positions
                   /\ Result(inp).trades = trades
            /\ (/\ DayPnl >= -LossLimit
                /\ Cardinality(positions) < 3
                /\ Cardinality({r \in trades : r.entry_time >= now - 3600}) < 2
                /\ get_open_positions(EngineState, CurSymbol) = {}
                /\ check_cooldown(last_trade_time, CurSymbol, now)
                /\ Qualifies(inp)) =>
                   NewPositions(Result(inp)) # {}

-----------------------------------------------------------------------------
(* C6 *)

\* C6: per symbol, an entry is rejected while the symbol's last entry is less
\* than 600 seconds old and is allowed from 600 seconds on; two entries on the
\* same symbol are never less than 600 seconds apart; a symbol that was never
\* entered is not blocked.
C6_Cooldown ==
    /\ \A e \in Entries : \A f \in Entries :
           (e # f /\ e.symbol = f.symbol) =>
               (e.entry_time - f.entry_time >= 600 \/ f.entry_time - e.entry_time >= 600)
    /\ StepEnabled =>
           \A inp \in Inputs(CurSymbol) :
               LET lt == last_trade_time[CurSymbol]
                   R == Result(inp)
               IN  /\ (lt # NoTime /\ now - lt < 600) => NewPositions(R) = {}
                   /\ (/\ lt = NoTime \/ now - lt >= 600
                       /\ check_risk_limits(EngineState, now)
                       /\ Qualifies(inp)
                       /\ get_open_positions(R, CurSymbol) \subseteq NewPositions(R))
                      => NewPositions(R) # {}

\* a symbol entered 300 seconds ago gets an input that closes its position
\* and on which an entry rule passes, with the risk gate open: nothing is opened
C6_Witness ==
    /\ StepEnabled
    /\ last_trade_time[CurSymbol] # NoTime
    /\ now - last_trade_time[CurSymbol] = 300
    /\ check_risk_limits(EngineState, now)
    /\ \E inp \in Inputs(CurSymbol) :
         /\ Qualifies(inp)
         /\ get_open_positions(Result(inp), CurSymbol) = {}
         /\ NewPositions(Result(inp)) = {}

-----------------------------------------------------------------------------
(* C7 *)

\* position p and trade r are the same entry
SameEntry(p, r) == p.symbol = r.symbol /\ p.entry_time = r.entry_time

\* C7: a position is closed only once: a closed position is not in the open
\* list, exactly one trade record exists for it, and closing an OPEN position
\* removes it, adds exactly its trade, and makes a second close_position on
\* the same id return None and leave both tables unchanged.
C7_ClosedOnce ==
    /\ \A p \in positions : p.id < next_position_id
    /\ \A r \in trades : \A p \in positions : ~SameEntry(p, r)
    /\ \A r \in trades : \A q \in trades : SameEntry(r, q) => r = q
    /\ \A p \in positions :
           LET S1 == close_position(EngineState, p.id, p.target, "Target Hit", now)
               S2 == close_position(S1, p.id, p.target, "Target Hit", now)
           IN  ~S1.raised =>
                   /\ p.id \notin Ids(S1.positions)
                   /\ Cardinality(S1.trades \ trades) = 1
                   /\ \A r \in S1.trades \ trades : SameEntry(p, r)
                   /\ trades \subseteq S1.trades
                   /\ ~ClosePositionReturnsTrade(S1, p.id)
                   /\ S2 = S1

\* a position was closed while another one is open
C7_Witness == trades # {} /\ positions # {}

-----------------------------------------------------------------------------
(* C8 *)

\* C8: every state of the database a request can be served from holds no
\* entry both among the open positions and in the trade history, and no
\* commit of the worker makes an entry of either table disappear from both:
\* a position that close_position closes leaves the positions in the commit
\* that puts it among the trades. /api/positions and /api/trades can be
\* served in every state, between any two commits of the worker.
C8_CloseIsOneCommitToReaders ==
    [][/\ {EntryKey(p) : p \in positions'} \cap {EntryKey(r) : r \in trades'} = {}
       /\ \A k \in KnownEntries :
              (k \in {EntryKey(p) : p \in positions'})
                  # (k \in {EntryKey(r) : r \in trades'})]_vars

\* a client was served a position by /api/positions and the worker has closed
\* that position since: the request ran next to the cycle that closed it
C8_Witness ==
    /\ reader.got_positions
    /\ \E k \in reader.positions :
           /\ k \in {EntryKey(r) : r \in trades}
           /\ k \notin {EntryKey(p) : p \in positions}

-----------------------------------------------------------------------------
(* C9 *)

\* C9: in every cycle in which a symbol produced scores, a position of that
\* symbol whose target or stop-loss is reached by the cycle's current price is
\* CLOSED by the end of the symbol's step.
C9_ExitsEveryScoredCycle ==
    StepEnabled =>
        \A inp \in Inputs(CurSymbol) :
            Scored(inp) =>
                \A p \in get_open_positions(EngineState, CurSymbol) :
                    TargetOrStopReached(p, inp.current_price) =>
                        p.id \notin Ids(Result(inp).positions)

-----------------------------------------------------------------------------
(* C10 *)

\* C10: a LONG position is never opened with a stop-loss above its entry
\* price, whatever swing low, ATR and 1h Supertrend execute_entry passes to
\* calculate_stop_loss.
C10_LongStopNotAboveEntry ==
    StepEnabled =>
        \A inp \in Inputs(CurSymbol) :
            \A p \in NewPositions(Result(inp)) :
                p.direction = "LONG" => p.stop_loss <= p.entry_price

-----------------------------------------------------------------------------
(* C11 *)

\* C11 as stated: the target of a call of calculate_target_price on a stop
\* that calculate_stop_loss returned lies at exactly twice the risk from the
\* entry: |target - entry| = 2 * |entry - stop|.
C11_TargetExactlyTwiceRisk ==
    fn.op = "calculate_target_price" =>
        Abs(fn.target - fn.entry_price) = 2 * Abs(fn.entry_price - fn.stop_loss)

\* C11, amended: the target is entry + 2 * |entry - stop| (LONG) or
\* entry - 2 * |entry - stop| (SHORT) rounded to 2 decimals: it is a whole
\* number of cents and differs from that value by at most 0.005. No side of
\* the entry is promised: the rounding can carry the target across an entry
\* that is not a whole number of cents.
C11_TargetTwiceRiskRounded ==
    fn.op = "calculate_target_price" =>
        LET risk == Abs(fn.entry_price - fn.stop_loss)
        IN  /\ fn.target % 10 = 0
            /\ fn.direction = "LONG" =>
                   Abs(fn.target - (fn.entry_price + 2 * risk)) <= 5
            /\ fn.direction = "SHORT" =>
                   Abs(fn.target - (fn.entry_price - 2 * risk)) <= 5

\* a LONG call on an entry price that is not a whole number of cents, with a
\* stop so near that the rounded target lies below the entry
C11_Witness ==
    /\ fn.op = "calculate_target_price"
    /\ fn.direction = "LONG"
    /\ fn.entry_price % 10 # 0
    /\ fn.target < fn.entry_price

-----------------------------------------------------------------------------
(* C12 *)

\* C12: computational degeneracy is never raised: no input makes the loop
\* body raise, and closing an OPEN position of size 0 completes without an
\* exception, removes the position and records its trade with a P&L of 0.
C12_ZeroSizeCloses ==
    /\ StepEnabled => \A inp \in Inputs(CurSymbol) : ~Result(inp).raised
    /\ \A p \in positions :
           p.position_size = 0 =>
               LET S1 == close_position(EngineState, p.id, p.target, "Target Hit", now)
               IN  /\ ~S1.raised
                   /\ p.id \notin Ids(S1.positions)
                   /\ \E r \in S1.trades \ trades : SameEntry(p, r) /\ r.pnl = 0

-----------------------------------------------------------------------------
(* C13 *)

\* the stop_loss of the managed position, 0 once it is closed
FnStop == IF fn.open_positions = {} THEN 0
          ELSE (CHOOSE p \in fn.open_positions : TRUE).stop_loss

\* C13: for the OPEN LONG position with entry 100, stop 95 and target 110, a
\* cycle at price 102.5 leaves the stop at 95 and the following cycle at price
\* 107.5 sets the stop to 103.75.
C13_TrailScenario ==
    (fn.op = "manage_existing_positions"
     /\ fn.initial = FnPosition("LONG", 100, 95, 110)) =>
        /\ fn.prices = <<102500>> => FnStop = 95000
        /\ fn.prices = <<102500, 107500>> => FnStop = 103750

-----------------------------------------------------------------------------
(* C14 *)

\* C14: over any sequence of cycles the stop_loss of an OPEN position only
\* moves in the trade's favor: a step never lowers the stop of a LONG position
\* that stays open and never raises the stop of a SHORT one.
C14_StopOnlyTightens ==
    [][\A p \in positions : \A q \in positions' :
           q.id = p.id =>
               /\ p.direction = "LONG" => q.stop_loss >= p.stop_loss
               /\ p.direction = "SHORT" => q.stop_loss <= p.stop_loss]_vars

\* a LONG position whose stop was moved to breakeven and then trailed above
\* it, and which later cycles still manage
C14_Witness ==
    \E p \in positions :
        /\ p.direction = "LONG"
        /\ initial_stop[p.id] < p.entry_price
        /\ p.stop_loss > p.entry_price
        /\ now > p.entry_time + 600

-----------------------------------------------------------------------------
(* C15 *)

\* unrealized profit per unit of position p at a price
ProfitAt(p, price) ==
    IF p.direction = "LONG" THEN price - p.entry_price ELSE p.entry_price - price

\* C15: trailing-stop thresholds are measured against the initial risk
\* |entry - initial stop|: a step moves a position's stop to breakeven only at
\* a price whose profit is >= 1 x initial risk, and to entry +- 0.5 * profit
\* only at a price whose profit is >= 1.5 x initial risk, also after earlier
\* stop updates.
C15_ThresholdsOnInitialRisk ==
    StepEnabled =>
        \A inp \in Inputs(CurSymbol) :
            \A p \in get_open_positions(EngineState, CurSymbol) :
                \A q \in Result(inp).positions :
                    (q.id = p.id /\ q.stop_loss # p.stop_loss) =>
                        LET profit == ProfitAt(p, inp.current_price)
                            initial_risk == Abs(p.entry_price - initial_stop[p.id])
                        IN  IF q.stop_loss = p.entry_price
                            THEN profit >= initial_risk
                            ELSE 2 * profit >= 3 * initial_risk

-----------------------------------------------------------------------------
(* C16 *)

\* C16: the classification of a master score s is a total, non-overlapping
\* partition of [0,100]: s > 65 is STRONG_BULLISH, 55 <= s <= 65 BULLISH,
\* 45 <= s < 55 NEUTRAL, 35 <= s < 45 BEARISH and s < 35 STRONG_BEARISH, so
\* 65 and 55 are BULLISH, 45 is NEUTRAL and 35 is BEARISH.
C16_ClassificationPartition ==
    fn.op = "calculate_master_score" =>
        LET s == master_score_raw(fn.weighted_indicators)
            c == fn.classification
        IN  /\ s >= 0 /\ s <= 1000000
            /\ c \in {"STRONG_BULLISH", "BULLISH", "NEUTRAL", "BEARISH", "STRONG_BEARISH"}
            /\ (c = "STRONG_BULLISH") <=> (s > 650000)
            /\ (c = "BULLISH") <=> (s >= 550000 /\ s <= 650000)
            /\ (c = "NEUTRAL") <=> (s >= 450000 /\ s < 550000)
            /\ (c = "BEARISH") <=> (s >= 350000 /\ s < 450000)
            /\ (c = "STRONG_BEARISH") <=> (s < 350000)

\* the call on a master score of exactly 65, classified BULLISH
C16_Witness ==
    /\ fn.op = "calculate_master_score"
    /\ master_score_raw(fn.weighted_indicators) = 650000
    /\ fn.classification = "BULLISH"

-----------------------------------------------------------------------------
(* C17 *)

\* C17: for every set of interval scores and every weight map whose total
\* weight over those intervals is 0 (intervals missing from the map count 0),
\* calculate_weighted_indicators returns 0 for rsi, macd, adx and supertrend;
\* otherwise each value is the sum of score * weight over the sum of weights.
C17_ZeroTotalWeightGivesZero ==
    fn.op = "calculate_weighted_indicators" =>
        LET total == TotalWeight(DOMAIN fn.interval_scores, fn.timeframe_weights)
            Sum(key) == WeightedSum(fn.interval_scores, fn.timeframe_weights, key)
        IN  IF total = 0
            THEN fn.weighted = [rsi |-> 0, macd |-> 0, adx |-> 0, supertrend |-> 0]
            ELSE /\ fn.weighted.rsi * total = Sum("rsi_score")
                 /\ fn.weighted.macd * total = Sum("macd_score")
                 /\ fn.weighted.adx * total = Sum("adx_score")
                 /\ fn.weighted.supertrend * total = Sum("supertrend_score")

-----------------------------------------------------------------------------
(* C18 *)

\* the four entry rules in the order check_entry_signals tests them
RuleOrder ==
    <<[direction |-> "LONG", setup_type |-> "Breakout"],
      [direction |-> "LONG", setup_type |-> "Reversal"],
      [direction |-> "SHORT", setup_type |-> "Breakout"],
      [direction |-> "SHORT", setup_type |-> "Reversal"]>>

\* which of the four rules pass on input inp, each taken on its own
RulePasses(inp) ==
    LET wi == WeightedOf(inp)
        i1h == Interval1h(inp.interval_scores, inp.current_price)
        rev == detect_reversal_setup(MasterOf(inp), wi.rsi,
                                     wi.rsi > 7000 \/ wi.rsi < 3000, inp.current_price,
                                     i1h.support, i1h.resistance, wi.adx)
        st == [i \in DOMAIN inp.interval_scores |-> inp.interval_scores[i].supertrend_score]
    IN  <<check_long_entry_breakout(MasterOf(inp), st, inp.current_price,
                                    i1h.resistance, i1h.high_volume),
          check_long_entry_reversal(rev, MasterOf(inp), wi.macd, inp.current_price,
                                    i1h.support),
          check_short_entry_breakout(MasterOf(inp), st, inp.current_price,
                                     i1h.support, i1h.high_volume),
          check_short_entry_reversal(rev, MasterOf(inp), wi.macd, inp.current_price,
                                     i1h.resistance)>>

\* C18: the four entry rules are evaluated in the order breakout-long,
\* reversal-long, breakout-short, reversal-short and the first that passes
\* decides the entry: a cycle opens at most one position for the symbol, with
\* the direction and setup type of the first passing rule, and it opens one
\* whenever a rule passes on a symbol that is free to enter.
C18_FirstPassingRuleWins ==
    StepEnabled =>
        \A inp \in Inputs(CurSymbol) :
            LET N == NewPositions(Result(inp))
                P == RulePasses(inp)
            IN  /\ Cardinality(N) <= 1
                /\ \A p \in N :
                       /\ p.symbol = CurSymbol
                       /\ \E k \in 1..4 :
                              /\ P[k]
                              /\ \A j \in 1..(k - 1) : ~P[j]
                              /\ p.direction = RuleOrder[k].direction
                              /\ p.setup_type = RuleOrder[k].setup_type
                /\ (/\ AllTruthy(inp) /\ FilterOK(inp)
                    /\ check_risk_limits(EngineState, now)
                    /\ get_open_positions(EngineState, CurSymbol) = {}
                    /\ check_cooldown(last_trade_time, CurSymbol, now)
                    /\ \E k \in 1..4 : P[k]) => Cardinality(N) = 1

\* breakout-long and reversal-long pass on the same input and the step opens
\* a LONG Breakout position
C18_Witness ==
    /\ StepEnabled
    /\ \E inp \in Inputs(CurSymbol) :
         /\ RulePasses(inp)[1] /\ RulePasses(inp)[2]
         /\ \E p \in NewPositions(Result(inp)) :
                p.direction = "LONG" /\ p.setup_type = "Breakout"

-----------------------------------------------------------------------------
(* C19 *)

\* C19: every qualifying entry, within the same cycle, opens one position
\* with its stop-loss, target and size, records the entry signal in the
\* signal log and stamps the symbol's cooldown timer, and the timer is stamped
\* at no other time: every entry has a row in signals for its symbol and entry
\* time, and every stamp of last_trade_time is the entry time of an entry of
\* that symbol.
C19_EntryLoggedAndStamped ==
    /\ \A e \in Entries :
           /\ last_trade_time[e.symbol] >= e.entry_time
           /\ \E s \in signals : s.symbol = e.symbol /\ s.timestamp = e.entry_time
    /\ \A symbol \in DOMAIN last_trade_time :
           last_trade_time[symbol] # -1 =>
               \E e \in Entries :
                   e.symbol = symbol /\ e.entry_time = last_trade_time[symbol]

-----------------------------------------------------------------------------
(* C20 *)

\* C20: an unexpected error raised while processing one symbol in a cycle does
\* not prevent the remaining configured symbols from being processed in that
\* same cycle: whatever the loop body does for a symbol, the worker goes on to
\* the next symbol of the list.
C20_ErrorDoesNotSkipSymbols ==
    [][(idx <= Len(Symbols) /\ idx' # idx) => idx' = idx + 1]_vars

-----------------------------------------------------------------------------
(* C21 *)

\* the scores tables the loop body leaves for input inp
ScoresAfter(inp) == update_symbol_data(scores, CurSymbol, inp, now)

\* C21: if no configured interval yields data for a symbol in a cycle, the
\* cycle leaves all of the symbol's state unchanged: no scores saved, no
\* position opened, closed or stop-updated, no change to the cooldown timer
\* (the worker has no write to the ADX history at all); if only some
\* intervals fail, the scores are aggregated over the remaining intervals
\* and saved.
C21_NoDataNoChange ==
    StepEnabled =>
        \A inp \in Inputs(CurSymbol) :
            /\ ~Scored(inp) =>
                   /\ ScoresAfter(inp) = scores
                   /\ Result(inp) = EngineState
            /\ (Scored(inp) /\ DOMAIN inp.interval_scores # Intervals) =>
                   /\ ScoresAfter(inp)[CurSymbol] = now
                   /\ \A s \in SymbolSet \ {CurSymbol} : ScoresAfter(inp)[s] = scores[s]
                   /\ \A i \in DOMAIN inp.interval_scores :
                          DOMAIN inp.interval_scores = {i} =>
                              WeightedOf(inp) =
                                  [rsi |-> inp.interval_scores[i].rsi_score,
                                   macd |-> inp.interval_scores[i].macd_score,
                                   adx |-> inp.interval_scores[i].adx_score,
                                   supertrend |-> inp.interval_scores[i].supertrend_score]

\* a symbol with saved scores and an OPEN position, whose price has reached
\* the target of the position, gets a cycle in which no interval yields data
C21_Witness ==
    /\ StepEnabled
    /\ scores[CurSymbol] # NoTime
    /\ \E inp \in Inputs(CurSymbol) :
         /\ ~Scored(inp)
         /\ \E p \in get_open_positions(EngineState, CurSymbol) :
                TargetOrStopReached(p, inp.current_price)

-----------------------------------------------------------------------------
(* C22 *)

\* C22: when the current price of a symbol is 0 (unknown price),
\* update_symbol_data raises no error and makes no decision for the symbol:
\* it leaves the engine state it was called on, OPEN position included.
C22_UnknownPriceNoDecision ==
    (fn.op = "update_symbol_data" /\ fn.inputs.current_price = 0) =>
        /\ ~fn.result.S.raised
        /\ fn.result.S = fn.before

\* the same for the loop body of BackgroundWorker.run, whose all([...]) test
\* includes current_price: on a price of 0 a step of the worker raises nothing
\* and leaves the engine state
RunSkipsUnknownPrice ==
    StepEnabled =>
        \A inp \in Inputs(CurSymbol) :
            inp.current_price = 0 =>
                /\ ~Result(inp).raised
                /\ Result(inp) = EngineState

-----------------------------------------------------------------------------
(* C23 *)

\* C23: a failure while building or delivering a notification never blocks
\* engine progress: the position change that triggered it stays recorded and
\* no exception leaves the loop body, so the rest of the cycle still runs.
\* Here the notification is the entry notification of a position whose stop
\* equals its entry, which cannot be built.
C23_NotificationFailureDoesNotBlock ==
    StepEnabled =>
        \A inp \in Inputs(CurSymbol) :
            \A p \in NewPositions(Result(inp)) :
                format_entry_signal_raises(p.entry_price, p.stop_loss) =>
                    ~Result(inp).raised

-----------------------------------------------------------------------------
(* C24 *)

\* trade r carries the fields of the row o as it was inserted by open_position
CarriesEntryOf(r, o) ==
    /\ r.symbol = o.symbol
    /\ r.direction = o.direction
    /\ r.entry_price = o.entry_price
    /\ r.position_size = o.position_size
    /\ r.entry_time = o.entry_time
    /\ r.setup_type = o.setup_type

\* C24: after any sequence of open, stop-update and close operations, every
\* trade record corresponds to exactly one previously opened position and
\* carries that position's symbol, direction, entry_price, size, entry_time
\* and setup_type unchanged; the number of positions ever opened equals the
\* number of OPEN positions plus the number of trade records.
C24_TradeOfOnePosition ==
    /\ DOMAIN pm.opened = 1..(pm.S.next_position_id - 1)
    /\ DOMAIN pm.closed_by = {r.id : r \in pm.S.trades}
    /\ \A r \in pm.S.trades :
           /\ pm.closed_by[r.id] \in DOMAIN pm.opened
           /\ pm.closed_by[r.id] \notin Ids(pm.S.positions)
           /\ CarriesEntryOf(r, pm.opened[pm.closed_by[r.id]])
           /\ \A q \in pm.S.trades :
                  pm.closed_by[q.id] = pm.closed_by[r.id] => q = r
    /\ Cardinality(DOMAIN pm.opened)
           = Cardinality(pm.S.positions) + Cardinality(pm.S.trades)

\* two positions with the same symbol and entry time were opened, the stop of
\* one was moved, and both were closed, at different prices
C24_Witness ==
    /\ Cardinality(pm.S.trades) = 2
    /\ pm.S.positions = {}
    /\ \E r \in pm.S.trades : r.stop_loss # pm.opened[pm.closed_by[r.id]].stop_loss
    /\ \E r \in pm.S.trades : \E q \in pm.S.trades : r.exit_price # q.exit_price

-----------------------------------------------------------------------------
(* C25 *)

ExitPrecedence == <<"Target Hit", "Stop Loss Hit", "Master Score Reversal",
                    "Supertrend Flip", "Time Exit (No Profit)">>

\* the exit condition named reason holds for the position in the cycle
ExitConditionHolds(reason, position, current_price, master_score, weighted_supertrend, elapsed) ==
    LET long == position.direction = "LONG"
    IN  CASE reason = "Target Hit" ->
               IF long THEN current_price >= position.target
               ELSE current_price <= position.target
          [] reason = "Stop Loss Hit" ->
               IF long THEN current_price <= position.stop_loss
               ELSE current_price >= position.stop_loss
          [] reason = "Master Score Reversal" ->
               IF long THEN master_score < 4500 ELSE master_score > 5500
          [] reason = "Supertrend Flip" ->
               IF long THEN weighted_supertrend < 4000 ELSE weighted_supertrend > 6000
          [] reason = "Time Exit (No Profit)" ->
               elapsed > 14400 /\ calculate_pnl(position, current_price) <= 0

\* positions in ExitPrecedence of the conditions that hold in the recorded call
FnExitHolding ==
    {i \in DOMAIN ExitPrecedence :
        ExitConditionHolds(ExitPrecedence[i], fn.position, fn.current_price,
                           fn.master_score, fn.weighted_supertrend, fn.elapsed)}

\* C25: when several exit conditions hold for an OPEN position in the same
\* cycle, the exit reason is the first in the precedence target hit, stop-loss
\* hit, MasterScore reversal, Supertrend flip, time-based exit, and it is the
\* reason of the trade the cycle records; when none holds the position stays
\* OPEN and no trade is recorded.
C25_FirstExitConditionWins ==
    fn.op = "check_exit_conditions" =>
        /\ FnExitHolding # {} =>
             /\ \A i \in FnExitHolding :
                    /\ fn.exit_reason \in {ExitPrecedence[j] : j \in FnExitHolding}
                    /\ \E j \in FnExitHolding :
                           ExitPrecedence[j] = fn.exit_reason /\ j <= i
             /\ \A r \in fn.trades : r.exit_reason = fn.exit_reason
             /\ fn.trades # {} \/ fn.raised
             /\ fn.trades # {} => fn.positions = {}
        /\ FnExitHolding = {} =>
             /\ fn.exit_reason = None
             /\ fn.trades = {}
             /\ ~fn.raised
             /\ Ids(fn.positions) = {fn.position.id}

\* the stop is hit while the master score and the supertrend have reversed and
\* the four hours have passed without profit: the trade says "Stop Loss Hit"
C25_Witness ==
    /\ fn.op = "check_exit_conditions"
    /\ FnExitHolding = {2, 3, 4, 5}
    /\ \E r \in fn.trades : r.exit_reason = "Stop Loss Hit"

-----------------------------------------------------------------------------
(* C26 *)

\* the unrealized P&L of the position at the price, not rounded (in 1e-7)
UnrealizedPnl(position, current_price) ==
    IF position.direction = "LONG"
    THEN (current_price - position.entry_price) * position.position_size
    ELSE (position.entry_price - current_price) * position.position_size

\* C26: a position is closed by the time-based exit only when 14,400 seconds
\* have elapsed since its entry and its unrealized P&L is <= 0; a position
\* whose unrealized P&L is strictly positive is never closed for time.
C26_TimeExitOnlyWithoutProfit ==
    (fn.op = "check_exit_conditions" /\ fn.exit_reason = "Time Exit (No Profit)") =>
        /\ fn.elapsed >= 14400
        /\ UnrealizedPnl(fn.position, fn.current_price) <= 0

-----------------------------------------------------------------------------
(* C27 *)

\* the rows p and q agree on every column but stop_loss
SameButStop(p, q) == [q EXCEPT !.stop_loss = p.stop_loss] = p

\* trade r is the close of the row p with the stop p had
ClosesWithStopOf(r, p) ==
    /\ CarriesEntryOf(r, p)
    /\ r.target = p.target
    /\ r.stop_loss = p.stop_loss

\* C27: after creation a position's symbol, direction, entry_price, target,
\* size, entry_time and setup_type never change, only stop_loss does; a
\* position that is no longer OPEN never is OPEN again (new rows take fresh
\* ids); and within one cycle a position is either closed, with the stop it
\* had before the cycle, or considered for a trailing-stop update, never both.
C27_OnlyStopMutates ==
    [][/\ \A p \in positions : \A q \in positions' :
              q.id = p.id => SameButStop(p, q)
       /\ \A q \in positions' :
              q.id \in Ids(positions) \/ q.id >= next_position_id
       /\ \A p \in positions :
              p.id \notin Ids(positions') =>
                  \E r \in trades' \ trades : ClosesWithStopOf(r, p)]_vars

\* an OPEN position whose stop a trailing-stop update has moved, all other
\* columns being as inserted, in a cycle that closes it
C27_Witness ==
    /\ StepEnabled
    /\ \E inp \in Inputs(CurSymbol) : \E p \in positions :
           /\ p.stop_loss # initial_stop[p.id]
           /\ p.id \notin Ids(Result(inp).positions)
           /\ \E r \in Result(inp).trades \ trades : ClosesWithStopOf(r, p)

-----------------------------------------------------------------------------
(* C28 *)

\* every configured interval has a supertrend score, and it is st
EveryConfiguredInterval(inp, st) ==
    \A i \in Intervals :
        /\ i \in DOMAIN inp.interval_scores
        /\ inp.interval_scores[i].supertrend_score = st

\* C28: a LONG Breakout position is opened only in a cycle where MasterScore
\* > 60, every configured interval's Supertrend score indicates uptrend, the
\* current price is above resistance x 1.002 and high_volume is true; a SHORT
\* Breakout only with MasterScore < 40, every configured interval in
\* downtrend, price below support x 0.998 and high_volume true.
C28_BreakoutEntryConditions ==
    StepEnabled =>
        \A inp \in Inputs(CurSymbol) :
            \A r \in Result(inp).positions :
                (r.id \notin Ids(positions) /\ r.setup_type = "Breakout") =>
                    LET interval_1h == Interval1h(inp.interval_scores, inp.current_price)
                    IN  /\ interval_1h.high_volume
                        /\ r.direction = "LONG" =>
                               /\ MasterOf(inp) > 6000
                               /\ EveryConfiguredInterval(inp, 10000)
                               /\ inp.current_price * 1000 > interval_1h.resistance * 1002
                        /\ r.direction = "SHORT" =>
                               /\ MasterOf(inp) < 4000
                               /\ EveryConfiguredInterval(inp, 0)
                               /\ inp.current_price * 1000 < interval_1h.support * 998

-----------------------------------------------------------------------------
(* C29 *)

\* the newest sample of the recorded history exceeds the mean of the three
\* samples before it
FnAdxRising ==
    LET h == fn.adx_history
        n == Len(h)
    IN  3 * h[n] > h[n - 1] + h[n - 2] + h[n - 3]

\* the recorded price is less than 1% of itself away from the level
FnNear(level) ==
    /\ 100 * (fn.current_price - level) < fn.current_price
    /\ 100 * (level - fn.current_price) < fn.current_price

\* C29: with at least 4 samples in the ADX history, a breakout setup is
\* flagged exactly when the weighted RSI is not extreme (30 <= RSI <= 70),
\* the current ADX exceeds the mean of the 3 prior samples, and either
\* MasterScore > 55 with the price within 1% of resistance (BULLISH) or
\* MasterScore < 45 with the price within 1% of support (BEARISH).
C29_BreakoutSetupFlagged ==
    (fn.op = "detect_breakout_setup" /\ Len(fn.adx_history) >= 4) =>
        LET calm == fn.weighted_rsi >= 3000 /\ fn.weighted_rsi <= 7000
            bullish == fn.master_score > 5500 /\ FnNear(fn.resistance)
            bearish == fn.master_score < 4500 /\ FnNear(fn.support)
        IN  /\ fn.direction # None <=> (calm /\ FnAdxRising /\ (bullish \/ bearish))
            /\ fn.direction = "BULLISH" <=> (calm /\ FnAdxRising /\ bullish)
            /\ fn.direction = "BEARISH" <=> (calm /\ FnAdxRising /\ bearish)

\* a BEARISH setup flagged on a history of five samples whose newest sample is
\* above the mean of the three before it and below the mean of all four
C29_Witness ==
    /\ fn.op = "detect_breakout_setup"
    /\ fn.adx_history = <<9000, 2000, 3000, 4000, 3100>>
    /\ fn.weighted_rsi = 7000
    /\ fn.direction = "BEARISH"

-----------------------------------------------------------------------------
(* C30 *)

\* the step is update_symbol_data of a cycle of the loop for symbol s, and it
\* saves a new row of scores
ScoredCycleOf(s) ==
    /\ worker.phase = "loop" /\ worker.pending = <<>>
    /\ idx <= Len(Symbols) /\ Symbols[idx] = s
    /\ scores'[s] # scores[s]

\* C30: each symbol's ADX history receives exactly one new sample per scored
\* cycle of the symbol, after the samples it holds; it never holds more than 10 samples; and it is never
\* changed by the cycle of another symbol.
C30_AdxHistoryPerScoredCycle ==
    [][\A s \in SymbolSet :
           /\ ScoredCycleOf(s) =>
                  /\ Len(adx_history'[s]) = Len(adx_history[s]) + 1
                  /\ SubSeq(adx_history'[s], 1, Len(adx_history[s])) = adx_history[s]
           /\ Len(adx_history'[s]) <= 10
           /\ (idx > Len(Symbols) \/ s # Symbols[idx]) =>
                  adx_history'[s] = adx_history[s]]_vars

-----------------------------------------------------------------------------
(* C31 *)

\* accountBalance * riskPercent of the recorded call with riskPercent 1.5%,
\* scaled so that dividing by the risk per unit gives the size in 1e-4 units
FnRiskAmount == fn.account_balance * 150000

FnRiskPerUnit == Abs(fn.entry_price - fn.stop_loss)

\* C31 as stated: the position size equals (accountBalance * riskPercent) /
\* |entry - stopLoss| with riskPercent 1.5%, and is 0 when entry = stopLoss.
C31_SizeIsExactQuotient ==
    fn.op = "calculate_position_size" =>
        IF FnRiskPerUnit = 0 THEN fn.position_size = 0
        ELSE fn.position_size * FnRiskPerUnit = FnRiskAmount

\* C31, amended: the position size is that quotient rounded to 4 decimals (it
\* differs from the quotient by at most 0.00005), and is 0 when entry =
\* stopLoss, where nothing is divided.
C31_SizeIsRoundedQuotient ==
    fn.op = "calculate_position_size" =>
        IF FnRiskPerUnit = 0 THEN fn.position_size = 0
        ELSE 2 * Abs(fn.position_size * FnRiskPerUnit - FnRiskAmount)
                 <= FnRiskPerUnit

\* a call whose quotient 1.5 / 7 has more than 4 decimals
C31_Witness ==
    /\ fn.op = "calculate_position_size"
    /\ FnRiskPerUnit # 0
    /\ FnRiskAmount % FnRiskPerUnit # 0
    /\ fn.position_size = 2143

-----------------------------------------------------------------------------
(* C32 *)

\* min(100, (ADX - 25) * 4) of the recorded call, in hundredths
FnAdxMagnitude ==
    IF (fn.adx - 2500) * 4 < 10000 THEN (fn.adx - 2500) * 4 ELSE 10000

\* the statement of C32 for the score on the symmetric scale -100..100
FnSymmetricAdxScoreAsStated ==
    /\ fn.adx < 2500 => fn.symmetric = 0
    /\ fn.adx >= 2500 =>
           IF fn.plus_di > fn.minus_di THEN fn.symmetric = FnAdxMagnitude
           ELSE fn.symmetric = -FnAdxMagnitude

\* C32: the ADX score is neutral (50 on the 0-100 scale, 0 on the symmetric
\* scale) whenever ADX < 25; for ADX >= 25 its magnitude is
\* min(100, (ADX - 25) * 4), on the bullish side (at or above neutral) when
\* +DI > -DI and on the bearish side (at or below neutral) otherwise.
C32_AdxScore ==
    fn.op = "calculate_adx_score" =>
        /\ FnSymmetricAdxScoreAsStated
        /\ fn.adx < 2500 => fn.score = 5000
        /\ fn.adx >= 2500 =>
               IF fn.plus_di > fn.minus_di THEN fn.score >= 5000
               ELSE fn.score <= 5000

-----------------------------------------------------------------------------
(* C33 *)

\* what the collaborators return in a quiet cycle at the given price: 1h
\* scores that pass the market filter and trigger no entry
ExitCycle(price) == [current_price |-> price, interval_scores |-> Only1h(ScNeutral)]

\* the times of a cycle now and of a cycle a day later, when the hourly and
\* the daily limit of the risk gate no longer count today's trades
ExitCycleTimes == {now, now + 86400}

\* position p is closed by a cycle of its symbol at time t whose price is the
\* target or the stop of p, run on the tables as they are
ClosedByCycleAt(p, t) ==
    \E price \in {p.target, p.stop_loss} :
        p.id \notin Ids(SymbolResult(EngineState, p.symbol, ExitCycle(price), t).positions)

\* C33: from every reachable state each OPEN position can still be closed:
\* there is a later cycle, with the price at its target or stop-loss, that
\* closes it; the engine reaches no state (such as 3 positions open) in which
\* an open position can never be closed again.
C33_OpenPositionsCanBeClosed ==
    \A p \in positions : \E t \in ExitCycleTimes : ClosedByCycleAt(p, t)

-----------------------------------------------------------------------------
(* C34 *)

\* C34: a SHORT position is never opened with a stop-loss below its entry
\* price, whatever swing high, ATR and 1h Supertrend execute_entry passes to
\* calculate_stop_loss.
C34_ShortStopNotBelowEntry ==
    StepEnabled =>
        \A inp \in Inputs(CurSymbol) :
            \A p \in NewPositions(Result(inp)) :
                p.direction = "SHORT" => p.stop_loss >= p.entry_price

-----------------------------------------------------------------------------
\* C35: driven from the same initial state by the same sequence of cycle
\* inputs, SignalProcessor.process_trading_signals and
\* server_app.process_trading_signals leave the same positions (open, closed,
\* stops) and the same trades after every cycle.
C35_EnginesAgree ==
    (fn.op = "process_trading_signals" /\ fn.pending = <<>>) =>
        /\ fn.modular.positions = fn.monolithic.positions
        /\ fn.modular.trades = fn.monolithic.trades

-----------------------------------------------------------------------------
\* C36: in every cycle where at least one interval yielded data for the symbol
\* and the current price is nonzero, run invokes process_trading_signals for
\* the symbol, whatever the master score in 0..100.
C36_ScoredCyclesAreProcessed ==
    StepEnabled =>
        \A inp \in Inputs(CurSymbol) :
            (Scored(inp) /\ inp.current_price # 0) => AllTruthy(inp)

-----------------------------------------------------------------------------
\* the input of the cycle that led to the current state of the two engines
FnLastInput == fn.inputs[Len(fn.inputs)]

\* the weighted ADX of the input is below 20, or its 1h ATR is more than twice
\* the 20-period average of the 1h ATR
FnFilterBlocks ==
    \/ WeightedOf(FnLastInput).adx < 2000
    \/ /\ "1h" \in DOMAIN FnLastInput.interval_scores
       /\ FnLastInput.interval_scores["1h"].atr >
              2 * FnLastInput.interval_scores["1h"].avg_atr_20

\* positions the modular engine opened in the cycle
FnOpenedInCycle ==
    {p \in fn.modular.positions : p.id >= fn.previous.next_position_id}

\* the entry checks alone, run on the state before the cycle, open a position
FnEntryRulesWouldOpen ==
    LET inp == FnLastInput
        R == detect_and_process_signals(fn.previous, "AAA", MasterOf(inp),
                 WeightedOf(inp), inp.current_price, inp.interval_scores,
                 Interval1h(inp.interval_scores, inp.current_price),
                 FnEnginePeriod * Len(fn.inputs))
    IN  R.positions # fn.previous.positions

\* C37: no position is opened in a cycle whose weighted ADX is below 20 or
\* whose 1h ATR is more than twice its 20-period average.
C37_FilteredCycleOpensNothing ==
    (fn.op = "process_trading_signals" /\ fn.inputs # <<>> /\ FnFilterBlocks)
        => FnOpenedInCycle = {}

\* a cycle with an extreme 1h ATR whose entry rules are met has opened nothing
C37_Witness ==
    /\ fn.op = "process_trading_signals" /\ fn.inputs # <<>>
    /\ WeightedOf(FnLastInput).adx >= 2000
    /\ FnFilterBlocks
    /\ FnEntryRulesWouldOpen
    /\ FnOpenedInCycle = {}

-----------------------------------------------------------------------------
\* the label the classification thresholds assign to a score in hundredths
LabelOf(score) ==
    IF score > 6500 THEN "STRONG_BULLISH"
    ELSE IF score >= 5500 THEN "BULLISH"
    ELSE IF score >= 4500 THEN "NEUTRAL"
    ELSE IF score >= 3500 THEN "BEARISH"
    ELSE "STRONG_BEARISH"

\* C38: the classification calculate_master_score returns is the label the
\* thresholds assign to the score it returns (the value rounded to 2 decimals).
C38_LabelOfReturnedScore ==
    fn.op = "calculate_master_score" => fn.classification = LabelOf(fn.master_score)

-----------------------------------------------------------------------------
\* the last close of the call, and the window of the call
FnLastClose == fn.close[Len(fn.close)]

FnWindowHigh == SeqMax(SeqTail(fn.high, fn.lookback))

FnWindowLow == SeqMin(SeqTail(fn.low, fn.lookback))

\* C39: for every window whose last close lies between the window's minimum
\* low and maximum high, calculate_support_resistance returns
\* support <= last close <= resistance, up to the rounding of the levels to
\* 2 decimals (half a hundredth).
C39_LevelsBracketLastClose ==
    (/\ fn.op = "calculate_support_resistance"
     /\ FnWindowLow <= FnLastClose /\ FnLastClose <= FnWindowHigh)
        => /\ fn.support <= FnLastClose + 5
           /\ FnLastClose <= fn.resistance + 5

\* a window of two candles that closed at the low and then at the high
C39_Witness ==
    /\ fn.op = "calculate_support_resistance"
    /\ Len(fn.close) = 2 /\ fn.lookback = 20
    /\ fn.close[1] = FnWindowLow /\ FnLastClose = FnWindowHigh
    /\ FnWindowLow < FnWindowHigh
    /\ fn.support < FnLastClose /\ FnLastClose < fn.resistance

====
